---- MODULE Spec2Model ----
(***************************************************************************)
(* A model of the memac allocator (ytakano/memalloc): the buddy page       *)
(* allocator (buddy.rs), the PageManager (pager.rs), the slab allocator    *)
(* (slab.rs) and the front end Allocator<PAGEALLOC> (lib.rs).              *)
(*                                                                         *)
(* Representation.                                                         *)
(*  - Addresses and sizes are integers, in bytes, as in the code.          *)
(*  - A u64 used as a bitmap is the set of its set bits, each bit named by *)
(*    its distance from the most significant bit: position i stands for    *)
(*    the bit 1 << (63 - i), which is how the code indexes every bitmap.   *)
(*    x.leading_zeros() of the complement is then the least position not   *)
(*    in the set.                                                          *)
(*  - Option<*mut u8>::None and the null pointer are both 0; no address    *)
(*    of the heap is 0.                                                    *)
(*  - The heap is modelled by what the allocator writes into it: the       *)
(*    header of every 64 KiB page used as a slab (pages), and the 8-byte   *)
(*    words in front of the pointers handed out (mem).                     *)
(***************************************************************************)
EXTENDS Integers, Sequences, FiniteSets, Bags, TLC

\* ---------------------------------------------------------------- bounds
\* Depth of the buddy tree: the heap holds 2^DEPTH pages of 64 KiB.  The
\* crate instantiates BuddyAlloc<DEPTH, _> with 9..27; the model uses a
\* small tree.
DEPTH == 2

\* The caller holds at most MaxLive allocations at a time.
MaxLive == 3

\* ------------------------------------------------------------- constants
SIZE_64K == 65536
MASK_64K == SIZE_64K - 1
MAX_SLAB_SIZE == 65512 - 8

TAG_UNUSED == 0
TAG_INNER == 1
TAG_USED_LEAF == 2

NULL == 0
None == 0

\* 2^n
RECURSIVE Pow2(_)
Pow2(n) == IF n = 0 THEN 1 ELSE 2 * Pow2(n - 1)

Min(S) == CHOOSE x \in S : \A y \in S : x <= y

\* ------------------------------------------------------- 64-bit bitmaps
Positions == 0..63

\* !0
AllOnes == Positions

\* The value whose low (64 - lo) bits are set: 0xFFFFFFFF is LowOnes(32).
LowOnes(lo) == lo..63

\* (!w).leading_zeros(): 64 when w is all ones
leading_zeros_not(w) ==
    IF w = AllOnes THEN 64 ELSE Min(Positions \ w)

\* n.leading_zeros() of a u64 n (n < 2^31 in the model)
leading_zeros(n) ==
    IF n = 0 THEN 64
    ELSE 63 - (CHOOSE k \in 0..31 : Pow2(k) <= n /\ n < Pow2(k + 1))

\* ------------------------------------------------------------ buddy.rs
\* NUM_NODES32 of BuddyAlloc<DEPTH, NUM_NODES32>: 32 two-bit tags per u64
NUM_NODES32 == ((Pow2(DEPTH + 1) - 1) \div 32) + 1

\* BuddyAlloc::new: bitmap[i][j] is the tag (bitmap[i] >> (j * 2)) & 0b11
Buddy_new(start_addr, size) ==
    [kind |-> "Buddy",
     min_size |-> SIZE_64K,
     start |-> start_addr,
     bitmap |-> [i \in 0..(NUM_NODES32 - 1) |-> [j \in 0..31 |-> TAG_UNUSED]]]

\* set_tag with the mask 0b01 for 0b11: the high bit of the tag is lost, a
\* used leaf is stored as UNUSED
set_tag_low_bit(b, idx, tag) ==
    [b EXCEPT !.bitmap[idx \div 32][idx % 32] = tag % 2]

get_tag(b, idx) == b.bitmap[idx \div 32][idx % 32]

set_tag(b, idx, tag) == [b EXCEPT !.bitmap[idx \div 32][idx % 32] = tag]

get_idx(depth, offset) ==
    IF depth = 0 THEN 0 ELSE Pow2(depth) - 1 + offset

\* find_mem with `next_bytes > req` for `next_bytes >= req`: a request of
\* exactly half a block takes the whole block
RECURSIVE find_mem_strict(_, _, _, _, _)
find_mem_strict(b, req, bytes, depth, offset) ==
    IF req > bytes \/ depth > DEPTH
    THEN [pa |-> b, ret |-> None, panic |-> ""]
    ELSE
      LET \* None => the right half, ret => ret
          OrRight(l) ==
            IF l.panic = "" /\ l.ret = None
            THEN find_mem_strict(l.pa, req, bytes \div 2, depth + 1, offset * 2 + 1)
            ELSE l
          \* match self.get_tag(idx)
          Match(idx, tag) ==
            CASE tag = TAG_USED_LEAF -> [pa |-> b, ret |-> None, panic |-> ""]
              [] tag = TAG_UNUSED ->
                   IF bytes \div 2 > req /\ depth < DEPTH
                   THEN find_mem_strict(set_tag(b, idx, TAG_INNER), req, bytes \div 2,
                                 depth + 1, offset * 2)
                   ELSE [pa |-> set_tag(b, idx, TAG_USED_LEAF),
                         ret |-> b.start + bytes * offset,
                         panic |-> ""]
              [] tag = TAG_INNER ->
                   OrRight(find_mem_strict(b, req, bytes \div 2, depth + 1, offset * 2))
              [] OTHER -> [pa |-> b, ret |-> None, panic |-> "unknown tag"]
      IN Match(get_idx(depth, offset), get_tag(b, get_idx(depth, offset)))

\* find_mem with `self.min_size * offset` for `bytes * offset`: the address is
\* counted in pages at every depth
RECURSIVE find_mem_min_size(_, _, _, _, _)
find_mem_min_size(b, req, bytes, depth, offset) ==
    IF req > bytes \/ depth > DEPTH
    THEN [pa |-> b, ret |-> None, panic |-> ""]
    ELSE
      LET \* None => the right half, ret => ret
          OrRight(l) ==
            IF l.panic = "" /\ l.ret = None
            THEN find_mem_min_size(l.pa, req, bytes \div 2, depth + 1, offset * 2 + 1)
            ELSE l
          \* match self.get_tag(idx)
          Match(idx, tag) ==
            CASE tag = TAG_USED_LEAF -> [pa |-> b, ret |-> None, panic |-> ""]
              [] tag = TAG_UNUSED ->
                   IF bytes \div 2 >= req /\ depth < DEPTH
                   THEN find_mem_min_size(set_tag(b, idx, TAG_INNER), req, bytes \div 2,
                                 depth + 1, offset * 2)
                   ELSE [pa |-> set_tag(b, idx, TAG_USED_LEAF),
                         ret |-> b.start + b.min_size * offset,
                         panic |-> ""]
              [] tag = TAG_INNER ->
                   OrRight(find_mem_min_size(b, req, bytes \div 2, depth + 1, offset * 2))
              [] OTHER -> [pa |-> b, ret |-> None, panic |-> "unknown tag"]
      IN Match(get_idx(depth, offset), get_tag(b, get_idx(depth, offset)))

\* find_mem with the two children of an INNER node tried right to left
RECURSIVE find_mem_right_first(_, _, _, _, _)
find_mem_right_first(b, req, bytes, depth, offset) ==
    IF req > bytes \/ depth > DEPTH
    THEN [pa |-> b, ret |-> None, panic |-> ""]
    ELSE
      LET \* None => the left half, ret => ret
          OrRight(l) ==
            IF l.panic = "" /\ l.ret = None
            THEN find_mem_right_first(l.pa, req, bytes \div 2, depth + 1, offset * 2)
            ELSE l
          \* match self.get_tag(idx)
          Match(idx, tag) ==
            CASE tag = TAG_USED_LEAF -> [pa |-> b, ret |-> None, panic |-> ""]
              [] tag = TAG_UNUSED ->
                   IF bytes \div 2 >= req /\ depth < DEPTH
                   THEN find_mem_right_first(set_tag(b, idx, TAG_INNER), req, bytes \div 2,
                                 depth + 1, offset * 2)
                   ELSE [pa |-> set_tag(b, idx, TAG_USED_LEAF),
                         ret |-> b.start + bytes * offset,
                         panic |-> ""]
              [] tag = TAG_INNER ->
                   OrRight(find_mem_right_first(b, req, bytes \div 2, depth + 1, offset * 2 + 1))
              [] OTHER -> [pa |-> b, ret |-> None, panic |-> "unknown tag"]
      IN Match(get_idx(depth, offset), get_tag(b, get_idx(depth, offset)))

\* find_mem that divides a block and leaves its node UNUSED: the node of a
\* block in use lies below an UNUSED node
RECURSIVE find_mem_keep_unused(_, _, _, _, _)
find_mem_keep_unused(b, req, bytes, depth, offset) ==
    IF req > bytes \/ depth > DEPTH
    THEN [pa |-> b, ret |-> None, panic |-> ""]
    ELSE
      LET \* None => the right half, ret => ret
          OrRight(l) ==
            IF l.panic = "" /\ l.ret = None
            THEN find_mem_keep_unused(l.pa, req, bytes \div 2, depth + 1,
                                      offset * 2 + 1)
            ELSE l
          \* match self.get_tag(idx)
          Match(idx, tag) ==
            CASE tag = TAG_USED_LEAF -> [pa |-> b, ret |-> None, panic |-> ""]
              [] tag = TAG_UNUSED ->
                   IF bytes \div 2 >= req /\ depth < DEPTH
                   THEN find_mem_keep_unused(b, req, bytes \div 2,
                                             depth + 1, offset * 2)
                   ELSE [pa |-> set_tag(b, idx, TAG_USED_LEAF),
                         ret |-> b.start + bytes * offset,
                         panic |-> ""]
              [] tag = TAG_INNER ->
                   OrRight(find_mem_keep_unused(b, req, bytes \div 2, depth + 1,
                                                offset * 2))
              [] OTHER -> [pa |-> b, ret |-> None, panic |-> "unknown tag"]
      IN Match(get_idx(depth, offset), get_tag(b, get_idx(depth, offset)))

\* find_mem returns [pa: the allocator after the call, ret: address or None,
\* panic: the panic message, "" when the call returned]
RECURSIVE find_mem(_, _, _, _, _)
find_mem(b, req, bytes, depth, offset) ==
    IF req > bytes \/ depth > DEPTH
    THEN [pa |-> b, ret |-> None, panic |-> ""]
    ELSE
      LET \* None => the right half, ret => ret
          OrRight(l) ==
            IF l.panic = "" /\ l.ret = None
            THEN find_mem(l.pa, req, bytes \div 2, depth + 1, offset * 2 + 1)
            ELSE l
          \* match self.get_tag(idx)
          Match(idx, tag) ==
            CASE tag = TAG_USED_LEAF -> [pa |-> b, ret |-> None, panic |-> ""]
              [] tag = TAG_UNUSED ->
                   IF bytes \div 2 >= req /\ depth < DEPTH
                   THEN find_mem(set_tag(b, idx, TAG_INNER), req, bytes \div 2,
                                 depth + 1, offset * 2)
                   ELSE [pa |-> set_tag(b, idx, TAG_USED_LEAF),
                         ret |-> b.start + bytes * offset,
                         panic |-> ""]
              [] tag = TAG_INNER ->
                   OrRight(find_mem(b, req, bytes \div 2, depth + 1, offset * 2))
              [] OTHER -> [pa |-> b, ret |-> None, panic |-> "unknown tag"]
      IN Match(get_idx(depth, offset), get_tag(b, get_idx(depth, offset)))

\* release_mem without the test `target == addr`: a used leaf is released
\* whatever address of its block is given
RECURSIVE release_mem_unchecked(_, _, _, _, _)
release_mem_unchecked(b, addr, bytes, depth, offset) ==
    LET \* combine buddy if both blocks are unused; r is the half released
        Combine(r, idx) ==
          IF r.panic # "" THEN r
          ELSE IF get_tag(r.pa, get_idx(depth + 1, offset * 2)) = TAG_UNUSED
                  /\ get_tag(r.pa, get_idx(depth + 1, offset * 2 + 1)) = TAG_UNUSED
               THEN [pa |-> set_tag(r.pa, idx, TAG_UNUSED), panic |-> ""]
               ELSE r
        \* match self.get_tag(idx)
        Match(idx, tag) ==
          CASE tag = TAG_UNUSED -> [pa |-> b, panic |-> "freed unused memory"]
            [] tag = TAG_USED_LEAF ->
                 [pa |-> set_tag(b, idx, TAG_UNUSED), panic |-> ""]
            [] tag = TAG_INNER ->
                 Combine(IF addr < b.start + bytes * offset + (bytes \div 2)
                         THEN release_mem_unchecked(b, addr, bytes \div 2, depth + 1,
                                          offset * 2)
                         ELSE release_mem_unchecked(b, addr, bytes \div 2, depth + 1,
                                          offset * 2 + 1),
                         idx)
            [] OTHER -> [pa |-> b, panic |-> "unknown tag"]
    IN Match(get_idx(depth, offset), get_tag(b, get_idx(depth, offset)))

\* release_mem without the step that combines the buddies: an INNER node
\* stays INNER when both its children are unused
RECURSIVE release_mem_no_combine(_, _, _, _, _)
release_mem_no_combine(b, addr, bytes, depth, offset) ==
    LET \* r is the half released
        Combine(r, idx) == r
        \* match self.get_tag(idx)
        Match(idx, tag) ==
          CASE tag = TAG_UNUSED -> [pa |-> b, panic |-> "freed unused memory"]
            [] tag = TAG_USED_LEAF ->
                 IF b.start + bytes * offset = addr
                 THEN [pa |-> set_tag(b, idx, TAG_UNUSED), panic |-> ""]
                 ELSE [pa |-> b, panic |-> "freed invalid address"]
            [] tag = TAG_INNER ->
                 Combine(IF addr < b.start + bytes * offset + (bytes \div 2)
                         THEN release_mem_no_combine(b, addr, bytes \div 2, depth + 1,
                                          offset * 2)
                         ELSE release_mem_no_combine(b, addr, bytes \div 2, depth + 1,
                                          offset * 2 + 1),
                         idx)
            [] OTHER -> [pa |-> b, panic |-> "unknown tag"]
    IN Match(get_idx(depth, offset), get_tag(b, get_idx(depth, offset)))

\* release_mem returns [pa, panic]
RECURSIVE release_mem(_, _, _, _, _)
release_mem(b, addr, bytes, depth, offset) ==
    LET \* combine buddy if both blocks are unused; r is the half released
        Combine(r, idx) ==
          IF r.panic # "" THEN r
          ELSE IF get_tag(r.pa, get_idx(depth + 1, offset * 2)) = TAG_UNUSED
                  /\ get_tag(r.pa, get_idx(depth + 1, offset * 2 + 1)) = TAG_UNUSED
               THEN [pa |-> set_tag(r.pa, idx, TAG_UNUSED), panic |-> ""]
               ELSE r
        \* match self.get_tag(idx)
        Match(idx, tag) ==
          CASE tag = TAG_UNUSED -> [pa |-> b, panic |-> "freed unused memory"]
            [] tag = TAG_USED_LEAF ->
                 IF b.start + bytes * offset = addr
                 THEN [pa |-> set_tag(b, idx, TAG_UNUSED), panic |-> ""]
                 ELSE [pa |-> b, panic |-> "freed invalid address"]
            [] tag = TAG_INNER ->
                 Combine(IF addr < b.start + bytes * offset + (bytes \div 2)
                         THEN release_mem(b, addr, bytes \div 2, depth + 1,
                                          offset * 2)
                         ELSE release_mem(b, addr, bytes \div 2, depth + 1,
                                          offset * 2 + 1),
                         idx)
            [] OTHER -> [pa |-> b, panic |-> "unknown tag"]
    IN Match(get_idx(depth, offset), get_tag(b, get_idx(depth, offset)))

buddy_alloc(b, size) == find_mem(b, size, Pow2(DEPTH) * b.min_size, 0, 0)

\* buddy_free that releases nothing
buddy_free_leak(b, addr) == [pa |-> b, panic |-> ""]

buddy_free(b, addr) == release_mem(b, addr, Pow2(DEPTH) * b.min_size, 0, 0)

\* ------------------------------------------------------------ pager.rs
\* The three bitmap levels are kept as the sets of their set bits:
\* vacancy_books as positions idx1, vacancy_pages as pairs <<idx1, idx2>>
\* (bit idx2 of vacancy_pages[idx1]) and book as triples <<idx1, idx2, idx3>>
\* (bit idx3 of book[idx1].pages[idx2]).
PageManager_new(start_addr, size) ==
    [kind |-> "PageManager",
     start |-> start_addr,
     end |-> start_addr + size,
     vacancy_books |-> {},
     vacancy_pages |-> {},
     book |-> {}]

\* the word vacancy_pages[idx1]
vacancy_pages_word(pm, idx1) == {j \in Positions : <<idx1, j>> \in pm.vacancy_pages}

\* the word book[idx1].pages[idx2]
book_word(pm, idx1, idx2) == {k \in Positions : <<idx1, idx2, k>> \in pm.book}

\* page_alloc with `addr > self.end` for `addr >= self.end`: the page that
\* starts at the end of the heap is handed out
PageManager_page_alloc_past_end(pm) ==
    IF pm.vacancy_books = AllOnes
    THEN [pa |-> pm, ret |-> None, panic |-> ""]
    ELSE
      LET \* lines 55-60: pm1 is the manager with the bit of the page set
          Close(pm1, idx1, idx2) ==
            IF book_word(pm1, idx1, idx2) # AllOnes THEN pm1
            ELSE IF vacancy_pages_word(pm1, idx1) \cup {idx2} # AllOnes
            THEN [pm1 EXCEPT !.vacancy_pages = @ \cup {<<idx1, idx2>>}]
            ELSE [pm1 EXCEPT !.vacancy_pages = @ \cup {<<idx1, idx2>>},
                             !.vacancy_books = @ \cup {idx1}]
          Take(idx1, idx2, idx3, addr) ==
            IF idx2 = 64
            THEN [pa |-> pm, ret |-> None, panic |-> "index out of bounds"]
            ELSE IF addr > pm.end
            THEN [pa |-> pm, ret |-> None, panic |-> ""]
            ELSE IF idx3 = 64
            THEN [pa |-> pm, ret |-> None,
                  panic |-> "attempt to subtract with overflow"]
            ELSE [pa |-> Close([pm EXCEPT !.book = @ \cup {<<idx1, idx2, idx3>>}],
                               idx1, idx2),
                  ret |-> addr, panic |-> ""]
          At3(idx1, idx2, idx3) ==
            Take(idx1, idx2, idx3,
                 64 * 1024 * 64 * 64 * idx1 + 64 * 1024 * 64 * idx2
                 + 64 * 1024 * idx3 + pm.start)
          At2(idx1, idx2) ==
            At3(idx1, idx2, leading_zeros_not(book_word(pm, idx1, idx2)))
          At1(idx1) ==
            At2(idx1, leading_zeros_not(vacancy_pages_word(pm, idx1)))
      IN At1(leading_zeros_not(pm.vacancy_books))

\* PageManager::page_alloc returns [pa, ret, panic].  A scan that finds a full word where
\* the level above promises a free bit indexes an array with 64 (idx2) or
\* shifts by 63 - 64 (idx3): the first panics, the second is reported as a
\* panic as well.
PageManager_page_alloc(pm) ==
    IF pm.vacancy_books = AllOnes
    THEN [pa |-> pm, ret |-> None, panic |-> ""]
    ELSE
      LET \* lines 55-60: pm1 is the manager with the bit of the page set
          Close(pm1, idx1, idx2) ==
            IF book_word(pm1, idx1, idx2) # AllOnes THEN pm1
            ELSE IF vacancy_pages_word(pm1, idx1) \cup {idx2} # AllOnes
            THEN [pm1 EXCEPT !.vacancy_pages = @ \cup {<<idx1, idx2>>}]
            ELSE [pm1 EXCEPT !.vacancy_pages = @ \cup {<<idx1, idx2>>},
                             !.vacancy_books = @ \cup {idx1}]
          Take(idx1, idx2, idx3, addr) ==
            IF idx2 = 64
            THEN [pa |-> pm, ret |-> None, panic |-> "index out of bounds"]
            ELSE IF addr >= pm.end
            THEN [pa |-> pm, ret |-> None, panic |-> ""]
            ELSE IF idx3 = 64
            THEN [pa |-> pm, ret |-> None,
                  panic |-> "attempt to subtract with overflow"]
            ELSE [pa |-> Close([pm EXCEPT !.book = @ \cup {<<idx1, idx2, idx3>>}],
                               idx1, idx2),
                  ret |-> addr, panic |-> ""]
          At3(idx1, idx2, idx3) ==
            Take(idx1, idx2, idx3,
                 64 * 1024 * 64 * 64 * idx1 + 64 * 1024 * 64 * idx2
                 + 64 * 1024 * idx3 + pm.start)
          At2(idx1, idx2) ==
            At3(idx1, idx2, leading_zeros_not(book_word(pm, idx1, idx2)))
          At1(idx1) ==
            At2(idx1, leading_zeros_not(vacancy_pages_word(pm, idx1)))
      IN At1(leading_zeros_not(pm.vacancy_books))

\* page_free with `addr > self.end` for `addr >= self.end`: the end of the
\* heap is taken for a page
PageManager_page_free_past_end(pm, addr) ==
    IF addr % 65536 # 0 \/ addr > pm.end \/ addr < pm.start
    THEN [pa |-> pm, panic |-> "invalid address"]
    ELSE
      LET Clear(idx1, idx2, idx3) ==
            [pa |-> [pm EXCEPT !.book = @ \ {<<idx1, idx2, idx3>>},
                               !.vacancy_pages = @ \ {<<idx1, idx2>>},
                               !.vacancy_books = @ \ {idx1}],
             panic |-> ""]
      IN Clear(((addr - pm.start) \div Pow2(28)) % 64,
               (addr \div Pow2(22)) % 64,
               (addr \div Pow2(16)) % 64)

\* PageManager::page_free returns [pa, panic]
PageManager_page_free(pm, addr) ==
    IF addr % 65536 # 0 \/ addr >= pm.end \/ addr < pm.start
    THEN [pa |-> pm, panic |-> "invalid address"]
    ELSE
      LET Clear(idx1, idx2, idx3) ==
            [pa |-> [pm EXCEPT !.book = @ \ {<<idx1, idx2, idx3>>},
                               !.vacancy_pages = @ \ {<<idx1, idx2>>},
                               !.vacancy_books = @ \ {idx1}],
             panic |-> ""]
      IN Clear(((addr - pm.start) \div Pow2(28)) % 64,
               (addr \div Pow2(22)) % 64,
               (addr \div Pow2(16)) % 64)

\* MemAlloc::alloc of the PageManager with the size test after page_alloc:
\* a request above 64 KiB fails with a page taken
MemAlloc_alloc_test_late(pa, size) ==
    IF pa.kind = "Buddy"
    THEN buddy_alloc(pa, size)
    ELSE LET Test(r) == IF size > SIZE_64K THEN [r EXCEPT !.ret = None] ELSE r
         IN Test(PageManager_page_alloc(pa))

\* impl MemAlloc for BuddyAlloc / PageManager
MemAlloc_alloc(pa, size) ==
    IF pa.kind = "Buddy"
    THEN buddy_alloc(pa, size)
    ELSE IF size > SIZE_64K
         THEN [pa |-> pa, ret |-> None, panic |-> ""]
         ELSE PageManager_page_alloc(pa)

MemAlloc_free(pa, addr) ==
    IF pa.kind = "Buddy" THEN buddy_free(pa, addr) ELSE PageManager_page_free(pa, addr)

MemAlloc_new(kind, start_addr, size) ==
    IF kind = "Buddy"
    THEN Buddy_new(start_addr, size)
    ELSE PageManager_new(start_addr, size)

\* ------------------------------------------------------------- slab.rs
\* The 13 slab types, named by their slot size: Slab16 .. Slab65512.
SmallClasses == {16, 32, 64, 128, 256, 512, 1024}
LargeClasses == {2040, 4088, 8184, 16376, 32752}
Classes == SmallClasses \cup LargeClasses \cup {65512}

\* SlabSmall!($id, $n, $shift, $l1val, $l2val, $size): the instantiations
SmallN(c) ==
    CASE c = 16 -> 64 [] c = 32 -> 32 [] c = 64 -> 16 [] c = 128 -> 8
      [] c = 256 -> 4 [] c = 512 -> 2 [] c = 1024 -> 1

SmallShift(c) ==
    CASE c = 16 -> 4 [] c = 32 -> 5 [] c = 64 -> 6 [] c = 128 -> 7
      [] c = 256 -> 8 [] c = 512 -> 9 [] c = 1024 -> 10

SmallL1val(c) ==
    CASE c = 16 -> {}
      [] c = 32 -> LowOnes(32)
      [] c = 64 -> LowOnes(16)
      [] c = 128 -> LowOnes(8)
      [] c = 256 -> LowOnes(4)
      [] c = 512 -> LowOnes(2)
      [] c = 1024 -> LowOnes(1)

SmallL2val(c) ==
    CASE c = 16 -> LowOnes(30)
      [] c = 32 -> LowOnes(55)
      [] c = 64 -> LowOnes(61)
      [] c = 128 -> LowOnes(63)
      [] c = 256 -> LowOnes(63)
      [] c = 512 -> LowOnes(63)
      [] c = 1024 -> LowOnes(63)

\* SlabLarge!($id, $l1val, $size): the instantiations
LargeL1val(c) ==
    CASE c = 2040 -> LowOnes(32)
      [] c = 4088 -> LowOnes(16)
      [] c = 8184 -> LowOnes(8)
      [] c = 16376 -> LowOnes(4)
      [] c = 32752 -> LowOnes(2)

\* buf.len() of the three #[repr(C)] page structs
BufLen(c) ==
    IF c \in SmallClasses THEN 65536 - 32 - 8 * SmallN(c)
    ELSE IF c \in LargeClasses THEN 65504
    ELSE 65512

\* Byte offsets of the header fields in the #[repr(C)] structs (each struct
\* is 65536 bytes; num and size are the last two u32).
OffL1(c) == IF c \in SmallClasses THEN BufLen(c) ELSE 65520
OffL2(c, i) == BufLen(c) + 8 + 8 * i
OffPrev(c) == IF c \in LargeClasses THEN 65504 ELSE 65512
OffNext(c) == IF c \in LargeClasses THEN 65512 ELSE 65520
OffNum == 65528
OffSize == 65532

\* A page that no init() has written yet.
UninitPage ==
    [l1_bitmap |-> {}, l2_bitmap |-> <<>>, prev |-> NULL, next |-> NULL,
     num |-> 0, size |-> 0]

\* The words of the heap in front of the returned pointers: pairs <<addr, value>>
MemWrite(m, a, v) == {w \in m : w[1] # a} \cup {<<a, v>>}
MemRead(m, a) == (CHOOSE w \in m : w[1] = a)[2]

\* The state the slab code works on: s.page_alloc, the list heads s.partial
\* and s.full (one per class), the heap (s.pages, s.mem), and what the call
\* has done so far: s.writes, the <<address, length>> of every store into
\* the heap, and s.panic, the message of the panic that ended it.
Wrote(s, a, len) == [s EXCEPT !.writes = @ \cup {<<a, len>>}]

Panic(s, msg) == [s EXCEPT !.panic = msg]

\* self.num += 1 / self.num -= 1 on a u32.  A u32 above 2^31 is kept as its
\* two's complement (0xFFFFFFFF is -1).  Below zero the build decides:
\* with overflow checks the subtraction panics, without it wraps.
num_inc(s, p) ==
    Wrote([s EXCEPT !.pages[p].num = @ + 1], p + OffNum, 4)

num_dec(s, p) ==
    IF s.pages[p].num = 0 /\ s.overflow_checks
    THEN Panic(s, "attempt to subtract with overflow")
    ELSE Wrote([s EXCEPT !.pages[p].num = @ - 1], p + OffNum, 4)

\* trait Slab: next, prev, set_next, set_prev (the same in every impl)
Slab_next(s, p) == s.pages[p].next
Slab_prev(s, p) == s.pages[p].prev
Slab_set_next(s, p, c, nxt) ==
    Wrote([s EXCEPT !.pages[p].next = nxt], p + OffNext(c), 8)
Slab_set_prev(s, p, c, prv) ==
    Wrote([s EXCEPT !.pages[p].prev = prv], p + OffPrev(c), 8)

\* SlabSmall: init that leaves l2_bitmap[$n - 1] zero: the bits of the slots
\* past the end of buf are free
SlabSmall_init_no_padding(s, p, c) ==
    [s EXCEPT !.pages[p] =
                 [l1_bitmap |-> SmallL1val(c),
                  l2_bitmap |-> [i \in 0..(SmallN(c) - 1) |-> {}],
                  prev |-> NULL, next |-> NULL, num |-> 0, size |-> c],
             !.writes = @ \cup {<<p + OffL1(c), 8>>, <<p + OffPrev(c), 8>>,
                                <<p + OffNext(c), 8>>, <<p + OffNum, 4>>,
                                <<p + OffSize, 4>>}
                          \cup {<<p + OffL2(c, i), 8>> : i \in 0..(SmallN(c) - 1)}]

\* SlabSmall: init
SlabSmall_init(s, p, c) ==
    [s EXCEPT !.pages[p] =
                 [l1_bitmap |-> SmallL1val(c),
                  l2_bitmap |-> [i \in 0..(SmallN(c) - 1) |->
                                   IF i = SmallN(c) - 1 THEN SmallL2val(c) ELSE {}],
                  prev |-> NULL, next |-> NULL, num |-> 0, size |-> c],
             !.writes = @ \cup {<<p + OffL1(c), 8>>, <<p + OffPrev(c), 8>>,
                                <<p + OffNext(c), 8>>, <<p + OffNum, 4>>,
                                <<p + OffSize, 4>>}
                          \cup {<<p + OffL2(c, i), 8>> : i \in 0..(SmallN(c) - 1)}]

\* SlabSmall: alloc, [s, ret]
SlabSmall_alloc(s, p, c) ==
    LET \* lines 461-476: s2 is the state with the bitmaps updated
        Store(s2, idx) ==
          IF idx >= 65536 - 32 - 8 * SmallN(c)
          THEN [s |-> Panic(s2, "allocation error"), ret |-> NULL]
          ELSE IF idx + 8 >= 65536 - 32 - 8 * SmallN(c)
          THEN [s |-> Panic(s2, "index out of bounds"), ret |-> NULL]
          ELSE [s |-> num_inc(Wrote([s2 EXCEPT !.mem = MemWrite(@, p + idx, p)],
                                    p + idx, 8), p),
                ret |-> p + idx + 8]
        \* lines 455-457
        SetL1(s1, idx1) ==
          IF s1.pages[p].l2_bitmap[idx1] = AllOnes
          THEN Wrote([s1 EXCEPT !.pages[p].l1_bitmap = @ \cup {idx1}],
                     p + OffL1(c), 8)
          ELSE s1
        Second(idx1, idx2) ==
          IF idx2 = 64
          THEN [s |-> Panic(s, "attempt to subtract with overflow"), ret |-> NULL]
          ELSE Store(SetL1(Wrote([s EXCEPT !.pages[p].l2_bitmap[idx1] = @ \cup {idx2}],
                                 p + OffL2(c, idx1), 8), idx1),
                     idx1 * s.pages[p].size * 64 + idx2 * s.pages[p].size)
        First(idx1) ==
          IF idx1 >= SmallN(c)
          THEN [s |-> Panic(s, "index out of bounds"), ret |-> NULL]
          ELSE Second(idx1, leading_zeros_not(s.pages[p].l2_bitmap[idx1]))
    IN First(leading_zeros_not(s.pages[p].l1_bitmap))

\* SlabSmall: free without `self.l1_bitmap &= !(1 << (63 - idx1))`: the L1
\* bit of a word that was full stays set
SlabSmall_free_keep_l1(s, p, c, ptr) ==
    LET addr == ptr - 8
        org == p
        len == addr - org
        idx == len \div Pow2(SmallShift(c))
        idx1 == idx \div 64
        idx2 == idx % 64
        Level2(s1) ==
          IF idx1 >= SmallN(c)
          THEN Panic(s1, "index out of bounds")
          ELSE num_dec(Wrote([s1 EXCEPT !.pages[p].l2_bitmap[idx1] = @ \ {idx2}],
                             p + OffL2(c, idx1), 8), p)
    IN Level2(s)

\* SlabSmall: free
SlabSmall_free(s, p, c, ptr) ==
    LET addr == ptr - 8
        org == p
        len == addr - org
        idx == len \div Pow2(SmallShift(c))
        idx1 == idx \div 64
        idx2 == idx % 64
        Level2(s1) ==
          IF idx1 >= SmallN(c)
          THEN Panic(s1, "index out of bounds")
          ELSE num_dec(Wrote([s1 EXCEPT !.pages[p].l2_bitmap[idx1] = @ \ {idx2}],
                             p + OffL2(c, idx1), 8), p)
    IN Level2(Wrote([s EXCEPT !.pages[p].l1_bitmap = @ \ {idx1}], p + OffL1(c), 8))

\* SlabLarge: init
SlabLarge_init(s, p, c) ==
    [s EXCEPT !.pages[p] = [l1_bitmap |-> LargeL1val(c), l2_bitmap |-> <<>>,
                            prev |-> NULL, next |-> NULL, num |-> 0, size |-> c],
             !.writes = @ \cup {<<p + OffPrev(c), 8>>, <<p + OffNext(c), 8>>,
                                <<p + OffL1(c), 8>>, <<p + OffSize, 4>>,
                                <<p + OffNum, 4>>}]

\* SlabLarge: alloc, [s, ret].  The slot header is struct SlabMemory
\* { idx1: usize, slab: usize }.
SlabLarge_alloc(s, p, c) ==
    LET \* lines 631-643: s1 is the state with the bit of the slot set
        Store(s1, idx1, idx) ==
          IF idx + 16 >= 65504
          THEN [s |-> Panic(s1, "index out of bounds"), ret |-> NULL]
          ELSE [s |-> num_inc(Wrote([s1 EXCEPT !.mem =
                                        MemWrite(MemWrite(@, p + idx, idx1),
                                                 p + idx + 8, p)],
                                    p + idx, 16), p),
                ret |-> p + idx + 16]
        First(idx1) ==
          IF idx1 = 64
          THEN [s |-> Panic(s, "attempt to subtract with overflow"), ret |-> NULL]
          ELSE Store(Wrote([s EXCEPT !.pages[p].l1_bitmap = @ \cup {idx1}],
                           p + OffL1(c), 8),
                     idx1, idx1 * s.pages[p].size)
    IN First(leading_zeros_not(s.pages[p].l1_bitmap))

\* SlabLarge: free
SlabLarge_free(s, p, c, ptr) ==
    num_dec(Wrote([s EXCEPT !.pages[p].l1_bitmap = @ \ {MemRead(s.mem, ptr - 16)}],
                  p + OffL1(c), 8), p)

\* Slab65512: init
Slab65512_init(s, p) ==
    [s EXCEPT !.pages[p] = [l1_bitmap |-> {}, l2_bitmap |-> <<>>,
                            prev |-> NULL, next |-> NULL, num |-> 0,
                            size |-> 65512],
             !.writes = @ \cup {<<p + OffNext(65512), 8>>,
                                <<p + OffPrev(65512), 8>>,
                                <<p + OffSize, 4>>, <<p + OffNum, 4>>}]

\* Slab65512: alloc, [s, ret]
Slab65512_alloc(s, p) ==
    [s |-> Wrote([Wrote([s EXCEPT !.mem = MemWrite(@, p, p)], p, 8)
                    EXCEPT !.pages[p].num = 1], p + OffNum, 4),
     ret |-> p + 8]

\* Slab65512: free
Slab65512_free(s, p, ptr) ==
    Wrote([s EXCEPT !.pages[p].num = 0], p + OffNum, 4)

\* trait Slab, dispatched on the type SLAB of the caller (the class c)
Slab_init(s, p, c) ==
    IF c \in SmallClasses THEN SlabSmall_init(s, p, c)
    ELSE IF c \in LargeClasses THEN SlabLarge_init(s, p, c)
    ELSE Slab65512_init(s, p)

Slab_alloc(s, p, c) ==
    IF c \in SmallClasses THEN SlabSmall_alloc(s, p, c)
    ELSE IF c \in LargeClasses THEN SlabLarge_alloc(s, p, c)
    ELSE Slab65512_alloc(s, p)

Slab_free(s, p, c, ptr) ==
    IF c \in SmallClasses THEN SlabSmall_free(s, p, c, ptr)
    ELSE IF c \in LargeClasses THEN SlabLarge_free(s, p, c, ptr)
    ELSE Slab65512_free(s, p, ptr)

Slab_is_full(s, p, c) ==
    IF c = 65512 THEN TRUE ELSE s.pages[p].l1_bitmap = AllOnes

Slab_is_empty(s, p, c) == s.pages[p].num = 0

\* The result of a call to the page source, taken into the slab state.
WithPageAlloc(s, r) == [s EXCEPT !.page_alloc = r.pa, !.panic = r.panic]

\* alloc_memory that takes a page from the page source for every allocation,
\* whether the class has a partial page or not
alloc_memory_always_fresh(s, c) ==
    LET slab_partial == s.partial[c]
        slab_full == s.full[c]
        \* lines 54-64: the partial page became full
        ToFull(s1) ==
          LET NewHead(s2) == [s2 EXCEPT !.partial[c] = Slab_next(s2, slab_partial)]
              Link(s3) ==
                Slab_set_next(IF slab_full # NULL
                              THEN Slab_set_prev(s3, slab_full, c, slab_partial)
                              ELSE s3,
                              slab_partial, c, slab_full)
          IN Link(NewHead(IF Slab_next(s1, slab_partial) # NULL
                          THEN Slab_set_prev(s1, Slab_next(s1, slab_partial), c, NULL)
                          ELSE s1))
        \* lines 50-67: r is the result of partial.alloc()
        FromPartial(r) ==
          IF r.s.panic # "" THEN [s |-> r.s, ret |-> None]
          ELSE IF Slab_is_full(r.s, slab_partial, c)
          THEN [s |-> ToFull(r.s), ret |-> r.ret]
          ELSE [s |-> r.s, ret |-> r.ret]
        \* lines 75-88: r is the result of slab.alloc() on the new page
        Fresh(r, slab_ptr) ==
          IF r.s.panic # "" THEN [s |-> r.s, ret |-> None]
          ELSE IF Slab_is_full(r.s, slab_ptr, c)
          THEN [s |-> [Slab_set_next(IF slab_full # NULL
                                     THEN Slab_set_prev(r.s, slab_full, c, slab_ptr)
                                     ELSE r.s,
                                     slab_ptr, c, slab_full)
                         EXCEPT !.full[c] = slab_ptr],
                ret |-> r.ret]
          ELSE [s |-> [r.s EXCEPT !.partial[c] = slab_ptr], ret |-> r.ret]
        \* lines 69-96: a is the result of page_alloc.alloc(SIZE_64K)
        NewPage(a) ==
          IF a.panic # "" \/ a.ret = None
          THEN [s |-> WithPageAlloc(s, a), ret |-> None]
          ELSE Fresh(Slab_alloc(Slab_init(WithPageAlloc(s, a), a.ret, c), a.ret, c),
                     a.ret)
    IN
    IF FALSE
    THEN FromPartial(Slab_alloc(s, slab_partial, c))
    ELSE NewPage(MemAlloc_alloc(s.page_alloc, SIZE_64K))

\* alloc_memory::<PAGEALLOC, SLAB>(page_alloc, slab_partial, slab_full), with
\* SLAB the type of class c: [s, ret]
alloc_memory(s, c) ==
    LET slab_partial == s.partial[c]
        slab_full == s.full[c]
        \* lines 54-64: the partial page became full
        ToFull(s1) ==
          LET NewHead(s2) == [s2 EXCEPT !.partial[c] = Slab_next(s2, slab_partial)]
              Link(s3) ==
                Slab_set_next(IF slab_full # NULL
                              THEN Slab_set_prev(s3, slab_full, c, slab_partial)
                              ELSE s3,
                              slab_partial, c, slab_full)
          IN Link(NewHead(IF Slab_next(s1, slab_partial) # NULL
                          THEN Slab_set_prev(s1, Slab_next(s1, slab_partial), c, NULL)
                          ELSE s1))
        \* lines 50-67: r is the result of partial.alloc()
        FromPartial(r) ==
          IF r.s.panic # "" THEN [s |-> r.s, ret |-> None]
          ELSE IF Slab_is_full(r.s, slab_partial, c)
          THEN [s |-> ToFull(r.s), ret |-> r.ret]
          ELSE [s |-> r.s, ret |-> r.ret]
        \* lines 75-88: r is the result of slab.alloc() on the new page
        Fresh(r, slab_ptr) ==
          IF r.s.panic # "" THEN [s |-> r.s, ret |-> None]
          ELSE IF Slab_is_full(r.s, slab_ptr, c)
          THEN [s |-> [Slab_set_next(IF slab_full # NULL
                                     THEN Slab_set_prev(r.s, slab_full, c, slab_ptr)
                                     ELSE r.s,
                                     slab_ptr, c, slab_full)
                         EXCEPT !.full[c] = slab_ptr],
                ret |-> r.ret]
          ELSE [s |-> [r.s EXCEPT !.partial[c] = slab_ptr], ret |-> r.ret]
        \* lines 69-96: a is the result of page_alloc.alloc(SIZE_64K)
        NewPage(a) ==
          IF a.panic # "" \/ a.ret = None
          THEN [s |-> WithPageAlloc(s, a), ret |-> None]
          ELSE Fresh(Slab_alloc(Slab_init(WithPageAlloc(s, a), a.ret, c), a.ret, c),
                     a.ret)
    IN
    IF slab_partial # NULL
    THEN FromPartial(Slab_alloc(s, slab_partial, c))
    ELSE NewPage(MemAlloc_alloc(s.page_alloc, SIZE_64K))

\* The page is taken out of the list it is in: lines 112-120 and 139-147
unlink(s, slab, c, head) ==
    LET After(s1) ==
          IF Slab_next(s1, slab) # NULL
          THEN Slab_set_prev(s1, Slab_next(s1, slab), c, Slab_prev(s1, slab))
          ELSE s1
    IN After(IF Slab_prev(s, slab) # NULL
             THEN Slab_set_next(s, Slab_prev(s, slab), c, Slab_next(s, slab))
             ELSE IF head = "full"
                  THEN [s EXCEPT !.full[c] = Slab_next(s, slab)]
                  ELSE [s EXCEPT !.partial[c] = Slab_next(s, slab)])

\* Some(addr_slab) without page_alloc.free(addr_slab): the page is kept
release_page_kept(s, addr_slab) == [s |-> s, ret |-> addr_slab]

\* page_alloc.free(addr_slab); Some(addr_slab)
release_page(s, addr_slab) ==
    [s |-> WithPageAlloc(s, MemAlloc_free(s.page_alloc, addr_slab)),
     ret |-> addr_slab]

\* dealloc_memory::<PAGEALLOC, SLAB>(ptr, addr_slab, page_alloc, slab_partial,
\* slab_full): [s, ret], ret the page to unmap or None
dealloc_memory(s, ptr, addr_slab, c) ==
    IF addr_slab = NULL THEN [s |-> s, ret |-> None]
    ELSE
      LET slab == addr_slab
          \* lines 126-137: the page goes to the head of the partial list
          ToPartial(s2) ==
            [s |-> [Slab_set_prev(
                      IF s2.partial[c] # NULL
                      THEN Slab_set_next(Slab_set_prev(s2, s2.partial[c], c, slab),
                                         slab, c, s2.partial[c])
                      ELSE Slab_set_next(s2, slab, c, NULL),
                      slab, c, NULL)
                    EXCEPT !.partial[c] = slab],
             ret |-> None]
          \* lines 122-138: the page was full and is out of the full list
          WasFull(s2) ==
            IF Slab_is_empty(s2, slab, c)
            THEN release_page(s2, addr_slab)
            ELSE ToPartial(s2)
          \* lines 111-153: s1 is the state after slab.free(ptr)
          Freed(s1, is_full) ==
            IF s1.panic # "" THEN [s |-> s1, ret |-> None]
            ELSE IF is_full THEN WasFull(unlink(s1, slab, c, "full"))
            ELSE IF Slab_is_empty(s1, slab, c)
            THEN release_page(unlink(s1, slab, c, "partial"), addr_slab)
            ELSE [s |-> s1, ret |-> None]
      IN Freed(Slab_free(s, slab, c, ptr), Slab_is_full(s, slab, c))

\* slab_class with the 8-byte header of the small classes taken for the
\* 16-byte header of class 2040: `size <= 2040 - 8`
slab_class_header_8(size) ==
    LET n == leading_zeros(size + 8 - 1) IN
    CASE n = 61 \/ n = 60 -> 16
      [] n = 59 -> 32
      [] n = 58 -> 64
      [] n = 57 -> 128
      [] n = 56 -> 256
      [] n = 55 -> 512
      [] n = 54 -> 1024
      [] OTHER ->
           IF size <= 4088 - 16
           THEN IF size <= 2040 - 8 THEN 2040 ELSE 4088
           ELSE IF size <= 16376 - 16
           THEN IF size <= 8184 - 16 THEN 8184 ELSE 16376
           ELSE IF size <= 32752 - 16 THEN 32752
           ELSE IF size <= 65512 - 8 THEN 65512
           ELSE None

\* The match of slab_alloc on (size + 8 - 1).leading_zeros() and on size:
\* the class whose lists it hands to alloc_memory, None where it returns None
slab_class(size) ==
    LET n == leading_zeros(size + 8 - 1) IN
    CASE n = 61 \/ n = 60 -> 16
      [] n = 59 -> 32
      [] n = 58 -> 64
      [] n = 57 -> 128
      [] n = 56 -> 256
      [] n = 55 -> 512
      [] n = 54 -> 1024
      [] OTHER ->
           IF size <= 4088 - 16
           THEN IF size <= 2040 - 16 THEN 2040 ELSE 4088
           ELSE IF size <= 16376 - 16
           THEN IF size <= 8184 - 16 THEN 8184 ELSE 16376
           ELSE IF size <= 32752 - 16 THEN 32752
           ELSE IF size <= 65512 - 8 THEN 65512
           ELSE None

\* SlabAllocator::slab_alloc: [s, ret]
slab_alloc(s, size) ==
    LET Class(c) ==
          IF c = None THEN [s |-> s, ret |-> None] ELSE alloc_memory(s, c)
    IN Class(slab_class(size))

\* SlabAllocator::slab_dealloc: [s, ret]
slab_dealloc(s, ptr) ==
    LET Page(addr_slab) ==
          IF s.pages[addr_slab].size \in Classes
          THEN dealloc_memory(s, ptr, addr_slab, s.pages[addr_slab].size)
          ELSE [s |-> s, ret |-> None]
    IN Page(MemRead(s.mem, ptr - 8))

\* SlabAllocator::new
SlabAllocator_new(kind, addr, size) ==
    [page_alloc |-> MemAlloc_new(kind, addr, size),
     partial |-> [c \in Classes |-> NULL],
     full |-> [c \in Classes |-> NULL]]

\* -------------------------------------------------------------- lib.rs
\* (self.unmapf)(start, end): the calls are recorded in s.unmapf
unmapf(s, start, end) == [s EXCEPT !.unmapf = Append(@, <<start, end>>)]

\* Allocator::mem_alloc: [s, ret]
mem_alloc(s, size) ==
    IF size <= MAX_SLAB_SIZE
    THEN slab_alloc(s, size)
    ELSE LET Took(a) == [s |-> WithPageAlloc(s, a), ret |-> a.ret]
         IN Took(MemAlloc_alloc(s.page_alloc, size))

\* Allocator::mem_free
mem_free(s, ptr, size) ==
    IF MAX_SLAB_SIZE >= size
    THEN
      LET Result(s1, result) ==
            IF s1.panic = "" /\ result # None
            THEN unmapf(s1, result, result)
            ELSE s1
          Dealloc_(r) == Result([r.s EXCEPT !.slab_ret = r.ret], r.ret)
      IN Dealloc_(slab_dealloc(s, ptr))
    ELSE
      LET start == ptr
          end == start \div Pow2(16 + IF start % SIZE_64K = 0 THEN 0 ELSE 1)
          Freed(s1) == IF s1.panic # "" THEN s1 ELSE unmapf(s1, start, end)
      IN Freed(WithPageAlloc(s, MemAlloc_free(s.page_alloc, ptr)))

\* GlobalAlloc::alloc with the mask !7 for !align_1
GlobalAlloc_alloc_mask_7(s, size, alignment) ==
    IF alignment <= 8
    THEN LET Raw(r) == [s |-> r.s, ret |-> r.ret, raw |-> r.ret]
         IN Raw(mem_alloc(s, size))
    ELSE
      LET align_1 == alignment - 1
          \* *ptr_to_orig = ptr as u64
          Save(s1, ptr, addr) ==
            [s |-> Wrote([s1 EXCEPT !.mem = MemWrite(@, addr - 8, ptr)],
                         addr - 8, 8),
             ret |-> addr, raw |-> ptr]
          \* (ptr + align_1 + 8) & !7, alignment a power of two
          Adapt(r) ==
            IF r.s.panic # "" \/ r.ret = None
            THEN [s |-> r.s, ret |-> NULL, raw |-> NULL]
            ELSE Save(r.s, r.ret,
                      (r.ret + align_1 + 8) - ((r.ret + align_1 + 8) % 8))
      IN Adapt(mem_alloc(s, size + align_1 + 8))

\* GlobalAlloc::alloc: [s, ret, raw], raw the pointer mem_alloc returned
GlobalAlloc_alloc(s, size, alignment) ==
    IF alignment <= 8
    THEN LET Raw(r) == [s |-> r.s, ret |-> r.ret, raw |-> r.ret]
         IN Raw(mem_alloc(s, size))
    ELSE
      LET align_1 == alignment - 1
          \* *ptr_to_orig = ptr as u64
          Save(s1, ptr, addr) ==
            [s |-> Wrote([s1 EXCEPT !.mem = MemWrite(@, addr - 8, ptr)],
                         addr - 8, 8),
             ret |-> addr, raw |-> ptr]
          \* (ptr + align_1 + 8) & !align_1, alignment a power of two
          Adapt(r) ==
            IF r.s.panic # "" \/ r.ret = None
            THEN [s |-> r.s, ret |-> NULL, raw |-> NULL]
            ELSE Save(r.s, r.ret,
                      (r.ret + align_1 + 8) - ((r.ret + align_1 + 8) % alignment))
      IN Adapt(mem_alloc(s, size + align_1 + 8))

\* GlobalAlloc::dealloc
GlobalAlloc_dealloc(s, ptr, size, alignment) ==
    IF alignment <= 8
    THEN mem_free(s, ptr, size)
    ELSE mem_free(s, MemRead(s.mem, ptr - 8), size + alignment - 1 + 8)

\* ------------------------------------------------------- the allocator
VARIABLES
    page_alloc,       \* SlabAllocator.page_alloc: the BuddyAlloc or the PageManager
    slab_partial,     \* SlabAllocator.slab<c>_partial, one list head per class c
    slab_full,        \* SlabAllocator.slab<c>_full
    pages,            \* the heap: the header of each 64 KiB page
    mem,              \* the heap: the words in front of the returned pointers
    overflow_checks,  \* the build: whether u32 arithmetic panics on overflow
    panicked,         \* the message of the panic that ended the program, or ""
    live,             \* the caller: the bag of allocations it holds
    last,             \* the last call: its arguments, its result, what it did
    lock,             \* Allocator.slab, the MCSLock: the thread that holds it
    thread            \* each thread: where it is in the call it makes

vars == <<page_alloc, slab_partial, slab_full, pages, mem, overflow_checks,
          panicked, live, last, lock, thread>>

\* The threads that call the allocator
NumThreads == 2

Threads == 1..NumThreads

\* The lock is free
NoThread == 0

\* A thread that is in no call
Idle == [pc |-> "idle"]

\* init(heap_start, size): size is the 2^DEPTH pages the buddy asserts
HeapSize == Pow2(DEPTH) * SIZE_64K

\* The configurations: the page source PAGEALLOC, the heap start (64 KiB
\* aligned, as init asserts; 262144 is aligned to the whole heap, 2^28 to the
\* 256 MiB of a PageManager book) and the build.
Configs ==
    {[kind |-> "Buddy", start |-> 65536, checks |-> TRUE],
     [kind |-> "Buddy", start |-> 262144, checks |-> TRUE],
     [kind |-> "PageManager", start |-> 65536, checks |-> TRUE],
     [kind |-> "PageManager", start |-> 65536, checks |-> FALSE],
     [kind |-> "PageManager", start |-> 268435456, checks |-> TRUE]}

\* The Layouts the caller asks for, <<size, align>>.  With the buddy: one
\* class of each page layout (Slab16, Slab8184 behind an alignment of 4096,
\* Slab32752, Slab65512), a block of one page, a block of two pages.  With
\* the PageManager: the SlabLarge layout alone (page_free can hand out a page
\* that is still in use, and pages of two layouts would then overlay each
\* other's header fields), a single page, and more than a page.
Requests(kind) ==
    IF kind = "Buddy"
    THEN {<<8, 8>>, <<20000, 8>>, <<128, 4096>>, <<40000, 8>>, <<65520, 8>>,
          <<65504, 16>>, <<70000, 8>>}
    ELSE {<<20000, 8>>, <<20000, 16>>, <<65520, 8>>, <<65500, 16>>, <<70000, 8>>}

\* The pages of memory the model keeps: those of the heap and the one after
\* it, which init() does not give to the allocator
PageAddrs(start) == {start + SIZE_64K * k : k \in 0..Pow2(DEPTH)}

\* Allocator::new() followed by init(cfg.start, HeapSize)
InitFor(cfg) ==
    LET a == SlabAllocator_new(cfg.kind, cfg.start, HeapSize) IN
    /\ page_alloc = a.page_alloc
    /\ slab_partial = a.partial
    /\ slab_full = a.full
    /\ pages = [p \in PageAddrs(cfg.start) |-> UninitPage]
    /\ mem = {}
    /\ overflow_checks = cfg.checks
    /\ panicked = ""
    /\ live = EmptyBag
    /\ last = [op |-> "init", size |-> 0, align |-> 0, ptr |-> NULL, raw |-> NULL,
               slab_ret |-> None, unmapf |-> <<>>, writes |-> {}]
    /\ lock = NoThread
    /\ thread = [t \in Threads |-> Idle]

Init == \E cfg \in Configs : InitFor(cfg)

\* The state a call starts from
Start ==
    [page_alloc |-> page_alloc, partial |-> slab_partial, full |-> slab_full,
     pages |-> pages, mem |-> mem, overflow_checks |-> overflow_checks,
     panic |-> "", writes |-> {}, unmapf |-> <<>>, slab_ret |-> None]

\* The heap keeps only what a later call can read.  Every read of the heap
\* starts from a pointer the caller holds (the words at ptr - 8, raw - 8 and
\* raw - 16) or from a list head, and follows the page address found there
\* and the prev and next of the pages reached; a word outside of these is
\* written again (init, alloc) before it is read, and the model drops it.
RECURSIVE Reachable(_, _)
Reachable(pg, R) ==
    LET more == (R \cup {pg[p].prev : p \in R} \cup {pg[p].next : p \in R})
                \cap DOMAIN pg
    IN IF more = R THEN R ELSE Reachable(pg, more)

LiveWords(lv) ==
    UNION {{a.ptr - 8, a.raw - 8, a.raw - 16} : a \in BagToSet(lv)}

Roots(s, lv) ==
    ({s.partial[c] : c \in Classes} \cup {s.full[c] : c \in Classes}
     \cup {w[2] : w \in {x \in s.mem : x[1] \in LiveWords(lv)}})
    \cap DOMAIN s.pages

Becomes(s, lv) ==
    /\ page_alloc' = s.page_alloc
    /\ slab_partial' = s.partial
    /\ slab_full' = s.full
    /\ pages' = [p \in DOMAIN s.pages |->
                   IF p \in Reachable(s.pages, Roots(s, lv))
                   THEN s.pages[p] ELSE UninitPage]
    /\ mem' = {w \in s.mem : w[1] \in LiveWords(lv)}
    /\ panicked' = s.panic
    /\ live' = lv
    /\ UNCHANGED overflow_checks

\* GlobalAlloc::alloc(Layout { size, align }), the caller a single thread
Alloc(size, align) ==
    /\ panicked = ""
    /\ BagCardinality(live) < MaxLive
    /\ UNCHANGED <<lock, thread>>
    /\ LET Returned(r) ==
             /\ Becomes(r.s, IF r.s.panic = "" /\ r.ret # NULL
                             THEN live (+) SetToBag({[ptr |-> r.ret, size |-> size,
                                                      align |-> align,
                                                      raw |-> r.raw]})
                             ELSE live)
             /\ last' = [op |-> "alloc", size |-> size, align |-> align,
                         ptr |-> r.ret, raw |-> r.raw, slab_ret |-> None,
                         unmapf |-> r.s.unmapf, writes |-> r.s.writes]
       IN Returned(GlobalAlloc_alloc(Start, size, align))

\* GlobalAlloc::dealloc(a.ptr, Layout { a.size, a.align }) of an allocation
\* the caller holds
Dealloc(a) ==
    /\ panicked = ""
    /\ UNCHANGED <<lock, thread>>
    /\ LET Returned(s) ==
             /\ Becomes(s, live (-) SetToBag({a}))
             /\ last' = [op |-> "dealloc", size |-> a.size, align |-> a.align,
                         ptr |-> a.ptr, raw |-> a.raw, slab_ret |-> s.slab_ret,
                         unmapf |-> s.unmapf, writes |-> s.writes]
       IN Returned(GlobalAlloc_dealloc(Start, a.ptr, a.size, a.align))

AllocStep == \E rq \in Requests(page_alloc.kind) : Alloc(rq[1], rq[2])

DeallocStep == \E a \in BagToSet(live) : Dealloc(a)

Next == AllocStep \/ DeallocStep

Spec == Init /\ [][Next]_vars

\* -------------------------------------------------------- properties
\* What the caller holds
Live == BagToSet(live)

\* The size mem_alloc and mem_free are called with for the Layout of a
AdjustedSize(a) ==
    IF a.align <= 8 THEN a.size ELSE a.size + a.align - 1 + 8

ServedBySlab(a) == AdjustedSize(a) <= MAX_SLAB_SIZE

\* The 64 KiB page an address lies in (the heap starts on a page boundary)
PageOf(addr) == addr - (addr % SIZE_64K)

\* [a.ptr, a.ptr + a.size) and [b.ptr, b.ptr + b.size) share no byte
Disjoint(a, b) == a.ptr + a.size <= b.ptr \/ b.ptr + b.size <= a.ptr

\* C1: with the buddy as page source, the byte ranges [p, p + size) of any
\* two allocations the caller holds are disjoint (no pointer is handed out
\* twice, no two ranges overlap), also for one allocation served by the slab
\* and one served by the buddy.
C1_NonAliasing ==
    page_alloc.kind = "Buddy" =>
        \A a \in Live :
            /\ CopiesIn(a, live) = 1
            /\ \A b \in Live : a # b => Disjoint(a, b)

\* C1, witness: the caller holds a slab object and a buddy block
C1_Witness ==
    /\ page_alloc.kind = "Buddy"
    /\ \E a, b \in Live : ServedBySlab(a) /\ ~ServedBySlab(b)

\* C2: with the buddy as page source, once the caller has freed everything
\* it allocated, the allocator is as init left it: every tag of the tree is
\* UNUSED and the partial and full heads of the 13 classes are null.
C2_Roundtrip ==
    (page_alloc.kind = "Buddy" /\ live = EmptyBag) =>
        /\ \A i \in DOMAIN page_alloc.bitmap : \A j \in 0..31 :
               page_alloc.bitmap[i][j] = TAG_UNUSED
        /\ \A c \in Classes : slab_partial[c] = NULL /\ slab_full[c] = NULL
        /\ page_alloc = Buddy_new(page_alloc.start, HeapSize)

\* C2, witness: a dealloc that returned the last allocation held
C2_Witness ==
    /\ page_alloc.kind = "Buddy"
    /\ live = EmptyBag
    /\ last.op = "dealloc"
    /\ panicked = ""

\* The class that serves a: what slab_alloc matches its adjusted size to
ClassOf(a) == slab_class(AdjustedSize(a))

\* The slot header in front of the pointer alloc() of class c returns
HeaderLen(c) == IF c \in LargeClasses THEN 16 ELSE 8

\* The bytes of the block the page source hands out for a request of n bytes
BlockBytes(kind, n) ==
    IF kind = "Buddy"
    THEN Min({HeapSize \div Pow2(d) : d \in {e \in 0..DEPTH : HeapSize \div Pow2(e) >= n}})
    ELSE SIZE_64K

\* [a.ptr, a.ptr + a.size) lies in what the backend reserved for a: the slot
\* of its class after the slot header, or the block of the page source
InReserved(a) ==
    IF ServedBySlab(a)
    THEN LET c == ClassOf(a)
             off == a.raw - HeaderLen(c) - PageOf(a.raw)
         IN /\ off % c = 0
            /\ off + c <= BufLen(c)
            /\ a.raw <= a.ptr
            /\ a.ptr + a.size <= PageOf(a.raw) + off + c
    ELSE LET bytes == BlockBytes(page_alloc.kind, AdjustedSize(a))
         IN /\ (a.raw - page_alloc.start) % bytes = 0
            /\ a.raw <= a.ptr
            /\ a.ptr + a.size <= a.raw + bytes

\* The allocations that were live throughout the last call
Others ==
    IF last.op = "alloc" /\ last.ptr # NULL
    THEN live (-) SetToBag({[ptr |-> last.ptr, size |-> last.size,
                             align |-> last.align, raw |-> last.raw]})
    ELSE live

\* C3: [p, p + size) of every allocation the caller holds lies inside the
\* slot (after its header) or the block reserved for it, and no call on
\* another pointer stores allocator metadata inside it while it is live.
C3_SizeHonored ==
    /\ \A a \in Live : InReserved(a)
    /\ \A a \in BagToSet(Others) : \A w \in last.writes :
           w[1] + w[2] <= a.ptr \/ a.ptr + a.size <= w[1]

\* C4: every non-null pointer alloc(size, align) returns is a multiple of
\* align, for align <= 8 and for align > 8, for every heap base and for
\* either page source.
C4_AlignmentHonored ==
    /\ (last.op = "alloc" /\ last.ptr # NULL) => last.ptr % last.align = 0
    /\ \A a \in Live : a.ptr % a.align = 0

\* C4, witness: the caller holds an adapted pointer (align > 8) that differs
\* from the first aligned address after the raw pointer, and a raw one
C4_Witness ==
    \E a, b \in Live :
        /\ a.align > 8 /\ a.ptr # a.raw /\ a.raw % a.align = 0
        /\ b.align <= 8 /\ b.ptr = b.raw

\* C5: every non-null pointer p alloc(size, align) returns has
\* base <= p and p + size <= base + heap_size, with either page source.
C5_Containment ==
    \A a \in Live :
        /\ page_alloc.start <= a.ptr
        /\ a.ptr + a.size <= page_alloc.start + HeapSize

\* C5, witness: the caller holds an allocation in the last page of the heap
C5_Witness ==
    \E a \in Live :
        PageOf(a.ptr + a.size - 1) = page_alloc.start + HeapSize - SIZE_64K

\* C6: an alloc that returns null leaves the page source, the list heads
\* and the heap as they were before the call.
C6_FailureAtomicity ==
    [][(last'.op = "alloc" /\ last'.ptr = NULL /\ panicked' = "") =>
           UNCHANGED <<page_alloc, slab_partial, slab_full, pages, mem>>]_vars

\* C6, witness: a slab request failed because the page source had no page
C6_Witness ==
    /\ last.op = "alloc" /\ last.ptr = NULL /\ panicked = ""
    /\ AdjustedSize(last) <= MAX_SLAB_SIZE
    /\ live # EmptyBag

\* The page index of a page address, as page_alloc numbers the pages
PageIndex(pa, page) == (page - pa.start) \div SIZE_64K

\* The page source holds the 64 KiB page as free: no node of the tree over it
\* is a used leaf (buddy), its bit of the book is clear (PageManager)
PageIsFree(pa, page) ==
    LET k == PageIndex(pa, page) IN
    IF pa.kind = "Buddy"
    THEN \A d \in 0..DEPTH :
             get_tag(pa, get_idx(d, k \div Pow2(DEPTH - d))) # TAG_USED_LEAF
    ELSE <<k \div 4096, (k \div 64) % 64, k % 64>> \notin pa.book

\* The caller holds no slot of the slab page
PageIdle(page) ==
    \A a \in Live : ~(ServedBySlab(a) /\ PageOf(a.raw) = page)

\* C8: the free of a slab pointer returns Some(page_base) if and only if it
\* left the page without a live slot and handed the page back to the page
\* source; otherwise it returns None and the page stays with its class.
C8_SlabFreeResult ==
    (last.op = "dealloc" /\ ServedBySlab(last) /\ panicked = "") =>
        LET page == PageOf(last.raw) IN
        /\ last.slab_ret \in {None, page}
        /\ last.slab_ret = page <=>
               (PageIdle(page) /\ PageIsFree(page_alloc, page))
        /\ last.slab_ret = None => ~PageIsFree(page_alloc, page)

\* C9: the callback is invoked exactly once by a slab free that drains its
\* page and exactly once by a free routed to the page source, and by no
\* other call: not by an alloc, not by a slab free that leaves a live slot.
C9_UnmapCorrespondence ==
    panicked = "" =>
        /\ last.op = "alloc" => Len(last.unmapf) = 0
        /\ (last.op = "dealloc" /\ ~ServedBySlab(last)) => Len(last.unmapf) = 1
        /\ (last.op = "dealloc" /\ ServedBySlab(last)) =>
               Len(last.unmapf) = IF PageIdle(PageOf(last.raw)) THEN 1 ELSE 0

\* C10: every invocation of the callback passes (start, end) with start the
\* base of the released page or block and end = start + its length; a
\* drained slab page is reported as (page_base, page_base + 65536).
C10_UnmapArguments ==
    \A i \in 1..Len(last.unmapf) :
        LET start == IF ServedBySlab(last) THEN PageOf(last.raw) ELSE last.raw
            len == IF ServedBySlab(last) THEN SIZE_64K
                   ELSE BlockBytes(page_alloc.kind, AdjustedSize(last))
        IN last.unmapf[i] = <<start, start + len>>

\* The allocator a call leaves equals the allocator as it is now, the heap
\* compared in what a later call can read
Restores(s) ==
    /\ s.panic = ""
    /\ s.page_alloc = page_alloc
    /\ s.partial = slab_partial
    /\ s.full = slab_full
    /\ [p \in DOMAIN s.pages |->
           IF p \in Reachable(s.pages, Roots(s, live))
           THEN s.pages[p] ELSE UninitPage] = pages
    /\ {w \in s.mem : w[1] \in LiveWords(live)} = mem

\* What alloc(size, align > 8) leaves for the allocation a: the adapted
\* pointer inside the over-allocated range, raw stored in front of it, the
\* backend asked for size + (align - 1) + 8 bytes, and the slot header in
\* front of raw still in place
Adapted(a) ==
    /\ a.raw + 8 <= a.ptr
    /\ a.ptr + a.size <= a.raw + a.size + a.align + 7
    /\ <<a.ptr - 8, a.raw>> \in mem
    /\ IF ServedBySlab(a)
       THEN /\ pages[PageOf(a.raw)].size = slab_class(a.size + (a.align - 1) + 8)
            /\ <<a.raw - 8, PageOf(a.raw)>> \in mem
       ELSE a.raw % SIZE_64K = 0

\* C19: for align > 8, alloc asks the backend for size + (align - 1) + 8
\* bytes, returns aligned with raw + 8 <= aligned and aligned + size <=
\* raw + size + align + 7, and stores raw at aligned - 8, clear of the slot
\* header at raw - 8; the matching free reads raw back, frees it with the
\* same adjusted size through the same backend, and leaves the allocator as
\* it was before the alloc.
C19_AdapterRoundTrip ==
    /\ [](\A a \in Live : a.align > 8 => Adapted(a))
    /\ [][(last'.op = "alloc" /\ last'.align > 8 /\ last'.ptr # NULL
           /\ panicked' = "") =>
              Restores(GlobalAlloc_dealloc(Start', last'.ptr, last'.size,
                                           last'.align))]_vars

\* ------------------------------------------------- class selection
\* One call on a freshly initialised allocator, for every size up to
\* MaxProbe: slab_alloc(size) itself, or alloc(size, 8) of the front end.
MaxProbe == 65600

ProbeSizes == 0..MaxProbe

InitClass == InitFor([kind |-> "Buddy", start |-> 65536, checks |-> TRUE])

\* SlabAllocator::slab_alloc(size), called as mem_alloc calls it
SlabAllocCall(size) ==
    LET Returned(r) ==
          /\ UNCHANGED <<lock, thread>>
          /\ Becomes(r.s, IF r.s.panic = "" /\ r.ret # None
                          THEN SetToBag({[ptr |-> r.ret, size |-> size,
                                          align |-> 8, raw |-> r.ret]})
                          ELSE live)
          /\ last' = [op |-> "slab_alloc", size |-> size, align |-> 8,
                      ptr |-> r.ret, raw |-> r.ret, slab_ret |-> None,
                      unmapf |-> r.s.unmapf, writes |-> r.s.writes]
    IN Returned(slab_alloc(Start, size))

SlabAllocProbe ==
    /\ last.op = "init"
    /\ \E size \in ProbeSizes : SlabAllocCall(size)

AllocProbe ==
    /\ last.op = "init"
    /\ \E size \in ProbeSizes : Alloc(size, 8)

NextClass == SlabAllocProbe \/ AllocProbe

SpecClass == InitClass /\ [][NextClass]_vars

\* The user size of class c: the slot without its header
UserSize(c) == c - HeaderLen(c)

\* The smallest class whose user size is at least size
SmallestClass(size) == Min({c \in Classes : UserSize(c) >= size})

\* ptr is a slot of a page of class c, and class c alone owns a page
ServedByClass(ptr, c) ==
    LET page == PageOf(ptr) IN
    /\ ptr # NULL
    /\ pages[page].size = c
    /\ (ptr - HeaderLen(c) - page) % c = 0
    /\ ptr + UserSize(c) <= page + BufLen(c)
    /\ slab_partial[c] = page \/ slab_full[c] = page
    /\ \A d \in Classes \ {c} : slab_partial[d] = NULL /\ slab_full[d] = NULL

\* C7: for every size in 0..=65504 slab_alloc serves the request from the
\* smallest class whose user size is >= size (a class's user size is served
\* by that class, one byte more by the next); above 65504 slab_alloc returns
\* None and the front end takes the block from the page source.
C7_ClassSelection ==
    /\ (last.op \in {"slab_alloc", "alloc"} /\ last.size <= 65504) =>
           ServedByClass(last.ptr, SmallestClass(last.size))
    /\ (last.op = "slab_alloc" /\ last.size > 65504) =>
           /\ last.ptr = None
           /\ page_alloc = Buddy_new(page_alloc.start, HeapSize)
    /\ (last.op = "alloc" /\ last.size > 65504) =>
           /\ last.ptr # NULL
           /\ ~PageIsFree(page_alloc, last.ptr)
           /\ pages[last.ptr] = UninitPage
           /\ \A c \in Classes : slab_partial[c] = NULL /\ slab_full[c] = NULL

\* C7, witness: slab_alloc(2025), one byte above the user size of class
\* 2040, returned a slot of class 4088
C7_Witness ==
    /\ last.op = "slab_alloc"
    /\ last.size = UserSize(2040) + 1
    /\ last.ptr # None
    /\ pages[PageOf(last.ptr)].size = 4088

\* --------------------------------------------------------------- threads
\* Several threads call alloc and dealloc on one Allocator.  A call takes
\* the lock (slab.lock() in mem_alloc and mem_free), runs the body of
\* mem_alloc or mem_free on the allocator it finds, stores what the body
\* computed and drops the guard at the end of the statement; mem_free
\* invokes the callback after that, without the lock.  The store of raw at
\* aligned - 8 and its load go to the caller's own block and are taken with
\* the step next to them.

\* MCSLock::lock() returns to thread t once no thread holds the lock
MCSLock_lock(lk, t) == lk = NoThread

\* The Layouts the threads ask for: a slot of Slab32752 and a block of two
\* pages (buddy) or a whole page (PageManager)
ThreadRequests(kind) ==
    IF kind = "Buddy"
    THEN {<<20000, 8>>, <<70000, 8>>}
    ELSE {<<20000, 8>>, <<65520, 8>>}

ThreadConfigs ==
    {[kind |-> "Buddy", start |-> 65536, checks |-> TRUE],
     [kind |-> "PageManager", start |-> 65536, checks |-> TRUE]}

InitThreads == \E cfg \in ThreadConfigs : InitFor(cfg)

\* The calls in flight that will add an allocation
Allocating == {u \in Threads : thread[u].pc = "locked" /\ thread[u].op = "alloc"}

\* alloc(size, align) of thread t up to the body of mem_alloc
LockAlloc(t, size, align) ==
    /\ panicked = ""
    /\ thread[t].pc = "idle"
    /\ BagCardinality(live) + Cardinality(Allocating) < MaxLive
    /\ MCSLock_lock(lock, t)
    /\ lock' = t
    /\ thread' = [thread EXCEPT ![t] =
                     [pc |-> "locked", op |-> "alloc", size |-> size,
                      align |-> align,
                      res |-> GlobalAlloc_alloc(Start, size, align)]]
    /\ UNCHANGED <<page_alloc, slab_partial, slab_full, pages, mem,
                   overflow_checks, panicked, live, last>>

\* the end of mem_alloc: the guard is dropped, alloc returns
UnlockAlloc(t) ==
    /\ thread[t].pc = "locked"
    /\ thread[t].op = "alloc"
    /\ LET Returned(r) ==
             /\ Becomes(r.s, IF r.s.panic = "" /\ r.ret # NULL
                             THEN live (+) SetToBag({[ptr |-> r.ret,
                                                      size |-> thread[t].size,
                                                      align |-> thread[t].align,
                                                      raw |-> r.raw]})
                             ELSE live)
             /\ last' = [op |-> "alloc", size |-> thread[t].size,
                         align |-> thread[t].align, ptr |-> r.ret,
                         raw |-> r.raw, slab_ret |-> None,
                         unmapf |-> r.s.unmapf, writes |-> r.s.writes]
       IN Returned(thread[t].res)
    /\ lock' = NoThread
    /\ thread' = [thread EXCEPT ![t] = Idle]

\* dealloc(a.ptr, Layout { a.size, a.align }) of thread t up to the body of
\* mem_free; the caller has given a up
LockDealloc(t, a) ==
    /\ panicked = ""
    /\ thread[t].pc = "idle"
    /\ MCSLock_lock(lock, t)
    /\ lock' = t
    /\ live' = live (-) SetToBag({a})
    /\ thread' = [thread EXCEPT ![t] =
                     [pc |-> "locked", op |-> "dealloc", a |-> a,
                      res |-> GlobalAlloc_dealloc(Start, a.ptr, a.size, a.align)]]
    /\ UNCHANGED <<page_alloc, slab_partial, slab_full, pages, mem,
                   overflow_checks, panicked, last>>

\* What the free of a handed back to the page source: the page slab_dealloc
\* returned, or the block of a
Released(a, s) ==
    IF a.size + (IF a.align <= 8 THEN 0 ELSE a.align - 1 + 8) <= MAX_SLAB_SIZE
    THEN [start |-> s.slab_ret, end |-> s.slab_ret + SIZE_64K]
    ELSE [start |-> a.raw,
          end |-> a.raw + (IF s.page_alloc.kind = "Buddy"
                           THEN Min({Pow2(k) * SIZE_64K : k \in
                                       {j \in 0..DEPTH : Pow2(j) * SIZE_64K >= a.size}})
                           ELSE SIZE_64K)]

\* the guard of mem_free is dropped; the callback, if any, is still to come
UnlockDealloc(t) ==
    /\ thread[t].pc = "locked"
    /\ thread[t].op = "dealloc"
    /\ LET Returned(s, a) ==
             /\ Becomes(s, live)
             /\ last' = [op |-> "dealloc", size |-> a.size, align |-> a.align,
                         ptr |-> a.ptr, raw |-> a.raw, slab_ret |-> s.slab_ret,
                         unmapf |-> <<>>, writes |-> s.writes]
             /\ thread' = [thread EXCEPT ![t] =
                              IF s.panic = "" /\ Len(s.unmapf) > 0
                              THEN [pc |-> "unmap", a |-> a, args |-> s.unmapf,
                                    region |-> Released(a, s)]
                              ELSE Idle]
       IN Returned(thread[t].res, thread[t].a)
    /\ lock' = NoThread

\* (self.unmapf)(..) of mem_free
Unmap(t) ==
    /\ thread[t].pc = "unmap"
    /\ last' = [op |-> "unmap", size |-> thread[t].a.size,
                align |-> thread[t].a.align, ptr |-> thread[t].a.ptr,
                raw |-> thread[t].a.raw, slab_ret |-> None,
                unmapf |-> thread[t].args, writes |-> {}]
    /\ thread' = [thread EXCEPT ![t] = Idle]
    /\ UNCHANGED <<page_alloc, slab_partial, slab_full, pages, mem,
                   overflow_checks, panicked, live, lock>>

LockAllocStep ==
    \E t \in Threads : \E rq \in ThreadRequests(page_alloc.kind) :
        LockAlloc(t, rq[1], rq[2])

UnlockAllocStep == \E t \in Threads : UnlockAlloc(t)

LockDeallocStep == \E t \in Threads : \E a \in BagToSet(live) : LockDealloc(t, a)

UnlockDeallocStep == \E t \in Threads : UnlockDealloc(t)

UnmapStep == \E t \in Threads : Unmap(t)

NextThreads ==
    \/ LockAllocStep
    \/ UnlockAllocStep
    \/ LockDeallocStep
    \/ UnlockDeallocStep
    \/ UnmapStep

SpecThreads == InitThreads /\ [][NextThreads]_vars

\* C11: while a thread has handed a page or block back to the page source
\* and has not yet invoked the callback for it, no allocation that another
\* thread's alloc returned lies in that page or block: the callback is never
\* invoked on memory that is live again.
C11_UnmapBeforeReuse ==
    \A t \in Threads :
        thread[t].pc = "unmap" =>
            \A b \in Live :
                \/ b.ptr + b.size <= thread[t].region.start
                \/ thread[t].region.end <= b.ptr

\* The allocator as a thread finds it
Shared == <<page_alloc, slab_partial, slab_full, pages, mem>>

\* What the call of thread t computes on the allocator as it is now
Sequential(t) ==
    IF thread[t].op = "alloc"
    THEN GlobalAlloc_alloc(Start, thread[t].size, thread[t].align)
    ELSE GlobalAlloc_dealloc(Start, thread[t].a.ptr, thread[t].a.size,
                             thread[t].a.align)

\* The body of every call runs with the lock held, on the allocator the
\* calls before it in lock order left
LockHeld ==
    \A t \in Threads : thread[t].pc = "locked" =>
        /\ lock = t
        /\ thread[t].res = Sequential(t)

\* The allocator changes only in the step that ends the body of the thread
\* holding the lock
LockedWrites ==
    [][Shared' # Shared =>
           lock \in Threads /\ thread[lock].pc = "locked" /\ lock' = NoThread]_vars

\* C12: the allocator state is read and written only by the thread that
\* holds the lock, so every call computes what it computes in the sequential
\* execution of the calls in lock order; no two allocations held overlap.
C12_Linearizable ==
    /\ [](LockHeld /\ \A a \in Live :
                          /\ CopiesIn(a, live) = 1
                          /\ \A b \in Live : a # b => Disjoint(a, b))
    /\ LockedWrites

\* ------------------------------------------------------- the page source
\* MemAlloc::alloc(size) and MemAlloc::free(addr) called on the page source
\* itself (BuddyAlloc or PageManager), with any size and any address.  The
\* caller holds the addresses alloc returned: live is the bag of [ptr].
InitBuddy == \E cfg \in {c \in Configs : c.kind = "Buddy"} : InitFor(cfg)

InitPager ==
    \E cfg \in {c \in Configs : c.kind = "PageManager" /\ c.checks} : InitFor(cfg)

\* The sizes the buddy is asked for: 0, every block size of the tree and one
\* byte more
BuddySizes ==
    {0} \cup UNION {{Pow2(k) * SIZE_64K, Pow2(k) * SIZE_64K + 1} : k \in 0..DEPTH}

\* The sizes the PageManager is asked for: a page, and one byte more
PagerSizes == {SIZE_64K, SIZE_64K + 1}

\* The addresses free is called with: every page of the heap, the page
\* before the heap, the end of the heap, and two addresses inside a page
SourceAddrs(start) ==
    {start + SIZE_64K * k : k \in (-1)..Pow2(DEPTH)}
    \cup {start + 8, start + HeapSize - 8}

\* PAGEALLOC::alloc(size)
SourceAlloc(size) ==
    /\ panicked = ""
    /\ BagCardinality(live) <= Pow2(DEPTH)
    /\ LET Returned(r) ==
             /\ page_alloc' = r.pa
             /\ panicked' = r.panic
             /\ live' = IF r.panic = "" /\ r.ret # None
                        THEN live (+) SetToBag({[ptr |-> r.ret]})
                        ELSE live
             /\ last' = [op |-> "source_alloc", size |-> size, ptr |-> r.ret,
                         held |-> FALSE, again |-> FALSE]
       IN Returned(MemAlloc_alloc(page_alloc, size))
    /\ UNCHANGED <<slab_partial, slab_full, pages, mem, overflow_checks,
                   lock, thread>>

\* PAGEALLOC::free(addr); held: the caller holds addr; again: the call before
\* this one was free(addr) as well
SourceFree(addr, held) ==
    /\ panicked = ""
    /\ LET Returned(r) ==
             /\ page_alloc' = r.pa
             /\ panicked' = r.panic
             /\ live' = IF r.panic = "" /\ held
                        THEN live (-) SetToBag({[ptr |-> addr]})
                        ELSE live
             /\ last' = [op |-> "source_free", size |-> 0, ptr |-> addr,
                         held |-> held,
                         again |-> last.op = "source_free" /\ last.ptr = addr]
       IN Returned(MemAlloc_free(page_alloc, addr))
    /\ UNCHANGED <<slab_partial, slab_full, pages, mem, overflow_checks,
                   lock, thread>>

\* free of an address the caller holds
SourceFreeStep == \E a \in BagToSet(live) : SourceFree(a.ptr, TRUE)

BuddyAllocStep == \E size \in BuddySizes : SourceAlloc(size)

\* buddy free of an address the caller does not hold
BuddyStrayFreeStep ==
    \E addr \in SourceAddrs(page_alloc.start) :
        /\ ~BagIn([ptr |-> addr], live)
        /\ SourceFree(addr, FALSE)

NextBuddy == BuddyAllocStep \/ SourceFreeStep \/ BuddyStrayFreeStep

SpecBuddy == InitBuddy /\ [][NextBuddy]_vars

PagerAllocStep == \E size \in PagerSizes : SourceAlloc(size)

\* page_free of an address that is no page of the heap (the PageManager
\* keeps no tag that tells a page it handed out from a page it did not)
PagerStrayFreeStep ==
    \E addr \in SourceAddrs(page_alloc.start) :
        /\ \/ addr % SIZE_64K # 0
           \/ addr < page_alloc.start
           \/ addr >= page_alloc.end
        /\ SourceFree(addr, FALSE)

NextPager == PagerAllocStep \/ SourceFreeStep \/ PagerStrayFreeStep

SpecPager == InitPager /\ [][NextPager]_vars

\* The nodes of the tree, <<depth, offset>>
Nodes == UNION {{<<d, o>> : o \in 0..(Pow2(d) - 1)} : d \in 0..DEPTH}

\* The bytes of the block of a node at depth d
NodeBytes(d) == HeapSize \div Pow2(d)

TagOf(pa, n) == get_tag(pa, get_idx(n[1], n[2]))

\* The last call was a buddy alloc that returned an address
BuddyReturned ==
    /\ page_alloc.kind = "Buddy"
    /\ last.op = "source_alloc"
    /\ last.ptr # None
    /\ panicked = ""

\* C13: a successful buddy alloc(req) turns exactly one node into a USED_LEAF,
\* the node of a block of the smallest size 64 KiB * 2^k >= req (64 KiB for
\* req = 0), leaves every other used leaf as it is, and returns the base of
\* that block.
C13_BuddyBlock ==
    [][BuddyReturned' =>
         \E n \in Nodes :
             /\ NodeBytes(n[1]) = BlockBytes("Buddy", last'.size)
             /\ last'.ptr = page_alloc.start + NodeBytes(n[1]) * n[2]
             /\ \A m \in Nodes :
                    /\ TagOf(page_alloc, m) = TAG_USED_LEAF
                           => TagOf(page_alloc', m) = TAG_USED_LEAF
                    /\ (TagOf(page_alloc, m) # TAG_USED_LEAF
                        /\ TagOf(page_alloc', m) = TAG_USED_LEAF) <=> m = n]_vars

\* C13, witness: alloc(0) returned a page while another block was in use
C13_Witness ==
    /\ BuddyReturned
    /\ last.size = 0
    /\ BagCardinality(live) = 2

\* C14: every address buddy alloc returns is a multiple of the size of the
\* block it reserved, for every 64 KiB-aligned heap base.
C14_NaturalAlignment ==
    BuddyReturned => last.ptr % BlockBytes("Buddy", last.size) = 0

\* C14 as amended: the address is the heap base plus a multiple of the size
\* of the block, hence a multiple of 64 KiB, and a multiple of the size of
\* the block when the heap base is one.
C14_AlignedFromBase ==
    BuddyReturned =>
        LET bytes == BlockBytes("Buddy", last.size) IN
        /\ (last.ptr - page_alloc.start) % bytes = 0
        /\ last.ptr % SIZE_64K = 0
        /\ page_alloc.start % bytes = 0 => last.ptr % bytes = 0

\* C14, witness: a block of two pages at an offset of two pages from a heap
\* base that is no multiple of two pages
C14_Witness ==
    /\ BuddyReturned
    /\ BlockBytes("Buddy", last.size) = 2 * SIZE_64K
    /\ last.ptr = page_alloc.start + 2 * SIZE_64K
    /\ page_alloc.start % (2 * SIZE_64K) # 0

\* The block <<d, o>> is free: it is or lies in an UNUSED node whose
\* ancestors are all INNER
FreeBlock(pa, d, o) ==
    \E e \in 0..d :
        /\ get_tag(pa, get_idx(e, o \div Pow2(d - e))) = TAG_UNUSED
        /\ \A f \in 0..(e - 1) :
               get_tag(pa, get_idx(f, o \div Pow2(d - f))) = TAG_INNER

\* The offsets of the free blocks of the given size
FreeBlocks(pa, bytes) ==
    {n[2] : n \in {m \in Nodes : NodeBytes(m[1]) = bytes /\ FreeBlock(pa, m[1], m[2])}}

\* C15: buddy alloc(req) returns None if and only if req exceeds the heap
\* size or the tree has no free block of the required size; otherwise it
\* returns the free block of that size with the lowest address.
C15_BuddyFirstFit ==
    [][(page_alloc.kind = "Buddy" /\ last'.op = "source_alloc" /\ panicked' = "") =>
         IF last'.size > HeapSize
         THEN last'.ptr = None
         ELSE LET bytes == BlockBytes("Buddy", last'.size) IN
              IF FreeBlocks(page_alloc, bytes) = {}
              THEN last'.ptr = None
              ELSE last'.ptr = page_alloc.start + bytes * Min(FreeBlocks(page_alloc, bytes))]_vars

\* C15, witness: alloc of one page returned None with the whole heap in use;
\* (the left half as one block, the right half as two pages)
C15_Witness ==
    /\ page_alloc.kind = "Buddy"
    /\ last.op = "source_alloc"
    /\ last.size = SIZE_64K
    /\ last.ptr = None
    /\ BagCardinality(live) = 3

\* C16: buddy free(addr) of an address that is not the base of a block the
\* caller holds (freed just before, inside a block, never allocated) panics
\* and leaves every tag as it was.
C16_BuddyFreePanics ==
    [][(page_alloc.kind = "Buddy" /\ last'.op = "source_free" /\ ~last'.held) =>
         /\ panicked' # ""
         /\ page_alloc' = page_alloc]_vars

\* C16, witness: the second of two consecutive free(p) panicked, with another
\* block still in use
C16_Witness ==
    /\ page_alloc.kind = "Buddy"
    /\ last.op = "source_free"
    /\ last.again
    /\ panicked # ""
    /\ live # EmptyBag

\* C17: after every buddy free that returns no INNER node has two UNUSED
\* children, and once the caller holds no block every node is UNUSED.
C17_Coalescing ==
    (page_alloc.kind = "Buddy" /\ last.op = "source_free" /\ panicked = "") =>
        /\ \A n \in Nodes :
               (n[1] < DEPTH /\ TagOf(page_alloc, n) = TAG_INNER) =>
                   \/ TagOf(page_alloc, <<n[1] + 1, 2 * n[2]>>) # TAG_UNUSED
                   \/ TagOf(page_alloc, <<n[1] + 1, 2 * n[2] + 1>>) # TAG_UNUSED
        /\ live = EmptyBag =>
               /\ TagOf(page_alloc, <<0, 0>>) = TAG_UNUSED
               /\ page_alloc = Buddy_new(page_alloc.start, HeapSize)

\* C17, witness: the free of the last page of the heap, the last block held
C17_Witness ==
    /\ page_alloc.kind = "Buddy"
    /\ last.op = "source_free"
    /\ last.ptr = page_alloc.start + HeapSize - SIZE_64K
    /\ panicked = ""
    /\ live = EmptyBag

\* C20: page_free(addr) of the PageManager panics and leaves vacancy_books,
\* vacancy_pages and every word of book as they were when addr is no
\* multiple of 64 KiB, is below start, or is at or above end.
C20_PageFreePanics ==
    [][(page_alloc.kind = "PageManager" /\ last'.op = "source_free"
        /\ (\/ last'.ptr % SIZE_64K # 0
            \/ last'.ptr < page_alloc.start
            \/ last'.ptr >= page_alloc.end)) =>
         /\ panicked' = "invalid address"
         /\ page_alloc' = page_alloc]_vars

\* C20, witness: page_free(end) panicked with pages in use
C20_Witness ==
    /\ page_alloc.kind = "PageManager"
    /\ last.op = "source_free"
    /\ last.ptr = page_alloc.end
    /\ panicked = "invalid address"
    /\ page_alloc.book # {}

\* ------------------------------------------------------------ exhaustion
\* One caller fills a fresh buddy heap with blocks of one size through the
\* front end, until alloc returns null; then frees every block, in any
\* order; then allocates again.  The size is chosen by the first alloc and
\* read from the call before on; last.after is the call before an alloc.
ExhaustConfigs ==
    {[kind |-> "Buddy", start |-> st, checks |-> TRUE] :
         st \in {65536, 131072, 262144}}

InitExhaust == \E cfg \in ExhaustConfigs : InitFor(cfg)

\* The power-of-two block sizes B, 64 KiB <= B <= heap size
BlockSizes == {Pow2(k) * SIZE_64K : k \in 0..DEPTH}

\* alloc(size, 8)
ExhaustAlloc(size) ==
    /\ panicked = ""
    /\ UNCHANGED <<lock, thread>>
    /\ LET Returned(r) ==
             /\ Becomes(r.s, IF r.s.panic = "" /\ r.ret # NULL
                             THEN live (+) SetToBag({[ptr |-> r.ret, size |-> size,
                                                      align |-> 8, raw |-> r.raw]})
                             ELSE live)
             /\ last' = [op |-> "alloc", size |-> size, align |-> 8,
                         ptr |-> r.ret, raw |-> r.raw, slab_ret |-> None,
                         unmapf |-> r.s.unmapf, writes |-> r.s.writes,
                         after |-> last.op]
       IN Returned(GlobalAlloc_alloc(Start, size, 8))

\* the allocations until the first that fails, and the one after the frees
FillStep ==
    \/ /\ last.op = "init"
       /\ \E size \in BlockSizes : ExhaustAlloc(size)
    \/ /\ \/ last.op = "alloc" /\ last.ptr # NULL
          \/ last.op = "dealloc" /\ live = EmptyBag
       /\ ExhaustAlloc(last.size)

\* the frees, once an alloc has failed
DrainStep ==
    /\ \/ last.op = "alloc" /\ last.ptr = NULL
       \/ last.op = "dealloc"
    /\ \E a \in BagToSet(live) : Dealloc(a)

NextExhaust == FillStep \/ DrainStep

SpecExhaust == InitExhaust /\ [][NextExhaust]_vars

\* C18: on a fresh buddy heap, of the consecutive allocations of B bytes (B a
\* power of two, 64 KiB <= B <= heap size) exactly heap_size / B succeed and
\* the next returns null; after all of them are freed an allocation of B
\* bytes succeeds again.
C18_Exhaustion ==
    /\ panicked = ""
    /\ last.op = "alloc" =>
           /\ BagCardinality(live) <= HeapSize \div last.size
           /\ last.ptr = NULL => BagCardinality(live) = HeapSize \div last.size
           /\ last.after = "dealloc" => last.ptr # NULL

\* C18, witness: the allocation of one page after the four pages of the
\* heap were taken and freed
C18_Witness ==
    /\ last.op = "alloc"
    /\ last.after = "dealloc"
    /\ last.size = SIZE_64K
    /\ last.ptr # NULL

\* ------------------------------------------------------ the PageManager
\* C21: for any 64 KiB-aligned start and any sequence of page_alloc and of
\* page_free of pages the caller holds, page_alloc never returns a page the
\* caller still holds: no page is held twice.
C21_ExclusivePages ==
    page_alloc.kind = "PageManager" =>
        \A a \in Live : CopiesIn(a, live) = 1

\* ------------------------------------------------------- the slab lists
\* The pages met from a list head along next, at most n of them
RECURSIVE Walk(_, _, _)
Walk(pg, p, n) ==
    IF p = NULL \/ n = 0 THEN <<>>
    ELSE IF p \notin DOMAIN pg THEN <<p>>
    ELSE <<p>> \o Walk(pg, pg[p].next, n - 1)

\* The list of a head: a cycle shows as a page that occurs twice
ListOf(head) == Walk(pages, head, Cardinality(DOMAIN pages) + 1)

Range(seq) == {seq[i] : i \in DOMAIN seq}

\* The slots of a page of class c: the bits init leaves clear
Capacity(c) ==
    IF c \in SmallClasses
    THEN 64 * (SmallN(c) - 1) + (64 - Cardinality(SmallL2val(c)))
    ELSE IF c \in LargeClasses THEN 64 - Cardinality(LargeL1val(c))
    ELSE 1

\* The allocations the caller holds in the slab page p
SlotsOf(p) == {a \in Live : ServedBySlab(a) /\ PageOf(a.raw) = p}

\* The number of them, each counted as often as the caller holds it
LiveSlots(p) ==
    BagCardinality([a \in SlotsOf(p) |-> CopiesIn(a, live)])

\* The pages of class c: those that hold a live slot of the class
ClassPages(c) ==
    {PageOf(a.raw) : a \in {b \in Live : ServedBySlab(b) /\ ClassOf(b) = c}}

\* C22: for every class, the pages reachable from the full-list head are
\* exactly the pages of the class with no free slot; an allocation that
\* fills the head of the partial list makes that page the head of the full
\* list.
C22_FullList ==
    \A c \in Classes :
        Range(ListOf(slab_full[c])) =
            {p \in ClassPages(c) : LiveSlots(p) = Capacity(c)}

\* The list of a head is a doubly linked list: the head's prev is null,
\* q.next = r implies r.prev = q, and no page occurs twice
WellFormed(head) ==
    LET l == ListOf(head) IN
    /\ \A i \in DOMAIN l : l[i] \in DOMAIN pages
    /\ \A i, j \in DOMAIN l : l[i] = l[j] => i = j
    /\ \A i \in DOMAIN l : pages[l[i]].prev = IF i = 1 THEN NULL ELSE l[i - 1]

\* C23: for every class, the list of the partial head is a well-formed
\* doubly linked list of exactly the pages of the class with a live slot and
\* a free slot; a page that a free leaves empty is in no list and is back
\* with the page source.
C23_PartialList ==
    panicked = "" =>
        /\ \A c \in Classes :
               /\ WellFormed(slab_partial[c])
               /\ Range(ListOf(slab_partial[c])) =
                      {p \in ClassPages(c) : LiveSlots(p) < Capacity(c)}
        /\ (last.op = "dealloc" /\ ServedBySlab(last)
            /\ PageIdle(PageOf(last.raw))) =>
               /\ \A c \in Classes :
                      PageOf(last.raw) \notin Range(ListOf(slab_partial[c]))
               /\ PageIsFree(page_alloc, PageOf(last.raw))

\* ------------------------------------------------------- the slab pages
\* The pages a SlabSmall or SlabLarge class owns: those whose header a list
\* head or a live pointer leads to
OwnedPages == {p \in DOMAIN pages : pages[p].size \in SmallClasses \cup LargeClasses}

\* C24: for every page a class owns, num is the number of live slots of the
\* page, is_empty() holds iff no slot is live and is_full() holds iff every
\* real slot is occupied (the padding bits of the bitmap do not count).
C24_NumCountsLive ==
    panicked = "" =>
        \A p \in OwnedPages :
            /\ pages[p].num = LiveSlots(p)
            /\ Slab_is_empty(Start, p, pages[p].size) <=> LiveSlots(p) = 0
            /\ Slab_is_full(Start, p, pages[p].size) <=>
                   LiveSlots(p) = Capacity(pages[p].size)

\* ---------------------------------------------------- the small classes
\* The methods of trait Slab called on one page, as alloc_memory and
\* dealloc_memory call them: init() and alloc() on a page fresh from the
\* page source, alloc() on a page that is not full, free(ptr) of a pointer
\* the caller holds; a page that free leaves empty goes back to the page
\* source.  The caller holds the pointers alloc returned (live is the bag of
\* [ptr]) and frees only what lies in the slots ProbeSlots: the first two of
\* the page, the last of the first bitmap word, the first of the second
\* word, and the last of the page.
InitSlabPage == InitFor([kind |-> "Buddy", start |-> 65536, checks |-> TRUE])

\* The page the calls are made on
SlabPage == page_alloc.start

\* Slab1024 has one L2 word, Slab512 two, Slab256 four, Slab128 eight
PageClasses == {128, 256, 512, 1024}

ProbeSlots(c) == {0, 1, 63, 64, Capacity(c) - 1}

\* The slot of the page that the pointer lies in
SlotIndex(ptr, c) == (ptr - HeaderLen(c) - PageOf(ptr)) \div c

\* slab.alloc(), after slab.init() on a fresh page
SlabPageAlloc(c, fresh) ==
    /\ panicked = ""
    /\ LET Returned(r) ==
             /\ pages' = r.s.pages
             /\ mem' = r.s.mem
             /\ panicked' = r.s.panic
             /\ live' = IF r.s.panic = ""
                        THEN live (+) SetToBag({[ptr |-> r.ret]})
                        ELSE live
             /\ last' = [op |-> "slab_alloc", ptr |-> r.ret, class |-> c,
                         fresh |-> fresh]
       IN Returned(Slab_alloc(IF fresh THEN Slab_init(Start, SlabPage, c) ELSE Start,
                              SlabPage, c))
    /\ UNCHANGED <<page_alloc, slab_partial, slab_full, overflow_checks,
                   lock, thread>>

\* slab.free(ptr); the page is dropped when is_empty() holds
SlabPageFree(c, ptr) ==
    /\ panicked = ""
    /\ LET Returned(s) ==
             /\ pages' = IF s.panic = "" /\ Slab_is_empty(s, SlabPage, c)
                         THEN [s.pages EXCEPT ![SlabPage] = UninitPage]
                         ELSE s.pages
             /\ mem' = {w \in s.mem : w[1] # ptr - 8}
             /\ panicked' = s.panic
             /\ live' = live (-) SetToBag({[ptr |-> ptr]})
             /\ last' = [op |-> "slab_free", ptr |-> ptr, class |-> c,
                         fresh |-> FALSE]
       IN Returned(Slab_free(Start, SlabPage, c, ptr))
    /\ UNCHANGED <<page_alloc, slab_partial, slab_full, overflow_checks,
                   lock, thread>>

NewPageStep ==
    /\ pages[SlabPage].size = 0
    /\ \E c \in PageClasses : SlabPageAlloc(c, TRUE)

PageAllocStep ==
    /\ pages[SlabPage].size \in Classes
    /\ ~Slab_is_full(Start, SlabPage, pages[SlabPage].size)
    /\ SlabPageAlloc(pages[SlabPage].size, FALSE)

PageFreeStep ==
    /\ pages[SlabPage].size \in Classes
    /\ \E a \in Live :
           /\ SlotIndex(a.ptr, pages[SlabPage].size)
                  \in ProbeSlots(pages[SlabPage].size)
           /\ SlabPageFree(pages[SlabPage].size, a.ptr)

NextSlabPage == NewPageStep \/ PageAllocStep \/ PageFreeStep

SpecSlabPage == InitSlabPage /\ [][NextSlabPage]_vars

\* The slots of the page that hold a pointer the caller holds
LiveIndexes(c) == {SlotIndex(a.ptr, c) : a \in Live}

\* The bitmaps of a small page, idx the slots that are live: an L1 bit is
\* set iff its L2 word is all ones, the padding bits of init are set, and
\* the bit of a real slot is set iff the slot is live
SmallBitmaps(pg, c, idx) ==
    /\ \A i \in 0..(SmallN(c) - 1) : i \in pg.l1_bitmap <=> pg.l2_bitmap[i] = AllOnes
    /\ SmallL1val(c) \subseteq pg.l1_bitmap
    /\ SmallL2val(c) \subseteq pg.l2_bitmap[SmallN(c) - 1]
    /\ \A i \in 0..(SmallN(c) - 1) :
           {i * 64 + j : j \in pg.l2_bitmap[i]} \cap (0..(Capacity(c) - 1))
               = idx \cap ((i * 64)..(i * 64 + 63))

\* The slot alloc takes from the page: i = leading_zeros(!L1),
\* j = leading_zeros(!L2[i])
NextSlot(pg) ==
    LET Second(i) == i * 64 + leading_zeros_not(pg.l2_bitmap[i])
    IN Second(leading_zeros_not(pg.l1_bitmap))

\* C25: in a page of a small class an L1 bit is set iff its L2 word is all
\* ones, the padding bits init sets are never cleared, alloc takes the
\* lowest-indexed free slot (i = leading_zeros(!L1), j =
\* leading_zeros(!L2[i])), that slot lies wholly inside buf, and free clears
\* its bit.
C25_SmallBitmaps ==
    /\ [](/\ panicked = ""
          /\ pages[SlabPage].size \in SmallClasses =>
                 SmallBitmaps(pages[SlabPage], pages[SlabPage].size,
                              LiveIndexes(pages[SlabPage].size)))
    /\ [](\A c \in SmallClasses : Capacity(c) * c <= BufLen(c))
    /\ [][last'.op = "slab_alloc" =>
            LET Slot(c, k) ==
                  /\ k = Min((0..(Capacity(c) - 1)) \ LiveIndexes(c))
                  /\ last'.ptr = SlabPage + k * c + 8
                  /\ (k + 1) * c <= BufLen(c)
                  /\ k % 64 \in pages'[SlabPage].l2_bitmap[k \div 64]
            IN Slot(last'.class,
                    IF last'.fresh THEN 0 ELSE NextSlot(pages[SlabPage]))]_vars
    /\ [][(last'.op = "slab_free" /\ pages'[SlabPage].size \in SmallClasses) =>
            LET Cleared(k) ==
                  k % 64 \notin pages'[SlabPage].l2_bitmap[k \div 64]
            IN Cleared(SlotIndex(last'.ptr, last'.class))]_vars

\* C25, witness: a Slab512 page whose first L2 word was filled (its L1 bit
\* set), after a free of the first slot of its second word
C25_Witness ==
    /\ last.op = "slab_free"
    /\ last.class = 512
    /\ SlotIndex(last.ptr, 512) = 64
    /\ pages[SlabPage].size = 512
    /\ 0 \in pages[SlabPage].l1_bitmap
    /\ 1 \notin pages[SlabPage].l1_bitmap

\* ------------------------------------------------------- the 65512 class
\* The front end asked for objects of the Slab65512 class alone (an
\* adjusted size of 32737 to 65504 bytes), with either page source.
InitSingle == \E cfg \in {c \in Configs : c.checks} : InitFor(cfg)

SingleRequests == {<<40000, 8>>, <<65504, 8>>}

SingleAllocStep == \E rq \in SingleRequests : Alloc(rq[1], rq[2])

NextSingle == SingleAllocStep \/ DeallocStep

SpecSingle == InitSingle /\ [][NextSingle]_vars

\* C26: a page of class 65512 holds one slot; the allocation that creates
\* it makes it the head of the full list; slab65512_partial stays null; the
\* free of its slot unlinks it and returns it to the page source; the full
\* list is a well-formed doubly linked list of exactly the live pages.
C26_SinglePages ==
    panicked = "" =>
        /\ slab_partial[65512] = NULL
        /\ WellFormed(slab_full[65512])
        /\ Range(ListOf(slab_full[65512])) = ClassPages(65512)
        /\ \A p \in ClassPages(65512) : LiveSlots(p) = 1
        /\ (last.op = "alloc" /\ last.ptr # NULL) =>
               slab_full[65512] = PageOf(last.raw)
        /\ last.op = "dealloc" =>
               /\ PageOf(last.raw) \notin Range(ListOf(slab_full[65512]))
               /\ last.slab_ret = PageOf(last.raw)
               /\ PageIsFree(page_alloc, PageOf(last.raw))

\* ------------------------------------------------------- class dispatch
\* The front end with pages that pass from one class to another: the caller
\* holds at most MaxHeld allocations, of two SlabLarge classes (Slab16376 and
\* Slab32752, whose pages have one layout) and, with the buddy, of Slab16 and
\* of the whole heap.
MaxHeld == 2

InitDispatch ==
    \E cfg \in {c \in Configs : c.checks /\ c.start # 262144} : InitFor(cfg)

DispatchRequests(kind) ==
    {<<10000, 8>>, <<20000, 8>>}
    \cup IF kind = "Buddy" THEN {<<8, 8>>, <<HeapSize, 8>>} ELSE {}

DispatchAllocStep ==
    /\ BagCardinality(live) < MaxHeld
    /\ \E rq \in DispatchRequests(page_alloc.kind) : Alloc(rq[1], rq[2])

NextDispatch == DispatchAllocStep \/ DeallocStep

SpecDispatch == InitDispatch /\ [][NextDispatch]_vars

\* C27: for every slab pointer the caller holds, the 8 bytes in front of
\* it hold the base of its page and the size word of that page (at
\* page_base + 65532) holds the slot size of the class alloc chose; the free
\* of a slab pointer changes the list heads of that class and of no other.
C27_ClassDispatch ==
    /\ [](panicked = "" =>
            \A a \in Live : ServedBySlab(a) =>
                /\ <<a.raw - 8, PageOf(a.raw)>> \in mem
                /\ pages[PageOf(a.raw)].size = ClassOf(a))
    /\ [][(last'.op = "dealloc" /\ ServedBySlab(last') /\ panicked' = "") =>
            \A c \in Classes \ {ClassOf(last')} :
                /\ slab_partial'[c] = slab_partial[c]
                /\ slab_full'[c] = slab_full[c]]_vars

\* C28: slab alloc asks the page source for a page only when the partial
\* list of the class is empty; with a partial page it allocates from the
\* head and leaves the page source alone; it returns None exactly when the
\* partial list is empty and the page source has no 64 KiB page.
C28_FreshPageOnlyWhenEmpty ==
    [][(last'.op = "alloc" /\ ServedBySlab(last') /\ panicked' = "") =>
         LET Served(head, a) ==
               /\ last'.raw = None <=> (head = NULL /\ a.ret = None)
               /\ head # NULL =>
                      /\ page_alloc' = page_alloc
                      /\ PageOf(last'.raw) = head
               /\ head = NULL =>
                      /\ page_alloc' = a.pa
                      /\ a.ret # None => PageOf(last'.raw) = a.ret
         IN Served(slab_partial[ClassOf(last')],
                   MemAlloc_alloc(page_alloc, SIZE_64K))]_vars

\* C28, witness: an alloc of a class without a partial page returned null
\* because the page source had no page, while another class had a partial
\* page
C28_Witness ==
    /\ last.op = "alloc" /\ last.ptr = NULL /\ panicked = ""
    /\ ServedBySlab(last)
    /\ slab_partial[ClassOf(last)] = NULL
    /\ \E c \in Classes : slab_partial[c] # NULL

\* ------------------------------------------- the PageManager's bitmaps
\* The bit of book that page_alloc sets for the page: <<idx1, idx2, idx3>>
\* with page = 64 * 64 * idx1 + 64 * idx2 + idx3 pages after start
PageBit(pa, page) ==
    LET Bit(k) == <<k \div 4096, (k \div 64) % 64, k % 64>>
    IN Bit(PageIndex(pa, page))

\* C29: in the PageManager, for any 64 KiB-aligned start and after any
\* page_alloc and page_free of pages the caller holds, bit j of
\* vacancy_pages[i] is set iff book[i].pages[j] is all ones, bit i of
\* vacancy_books is set iff vacancy_pages[i] is all ones, and the bit of a
\* page in book is set iff the caller holds the page.
C29_VacancyBitmaps ==
    page_alloc.kind = "PageManager" =>
        /\ \A i, j \in Positions :
               <<i, j>> \in page_alloc.vacancy_pages
                   <=> book_word(page_alloc, i, j) = AllOnes
        /\ \A i \in Positions :
               i \in page_alloc.vacancy_books
                   <=> vacancy_pages_word(page_alloc, i) = AllOnes
        /\ page_alloc.book = {PageBit(page_alloc, a.ptr) : a \in Live}

\* C30: page_free(a) of a page a that page_alloc returned clears exactly
\* the bit page_alloc set for a (it recovers the three indices from
\* a - start); page_alloc followed by page_free of its result restores the
\* PageManager, and the next page_alloc returns a again.
C30_PageRoundTrip ==
    /\ [][(page_alloc.kind = "PageManager" /\ last'.op = "source_free"
           /\ last'.held /\ panicked' = "") =>
              page_alloc'.book = page_alloc.book \ {PageBit(page_alloc, last'.ptr)}]_vars
    /\ [][(page_alloc.kind = "PageManager" /\ last'.op = "source_alloc"
           /\ last'.ptr # None /\ panicked' = "") =>
              LET Back(f) ==
                    /\ f.panic = ""
                    /\ f.pa = page_alloc
                    /\ PageManager_page_alloc(f.pa).ret = last'.ptr
              IN Back(PageManager_page_free(page_alloc', last'.ptr))]_vars

\* ------------------------------------------------------- the buddy tree
\* The nodes below node n, <<depth, offset>>
Descendants(n) ==
    {m \in Nodes : m[1] > n[1] /\ m[2] \div Pow2(m[1] - n[1]) = n[2]}

\* The first byte of the block of node n, and the byte after its last
BlockBase(pa, n) == pa.start + NodeBytes(n[1]) * n[2]

BlockEnd(pa, n) == BlockBase(pa, n) + NodeBytes(n[1])

\* find_mem(req, ..) at node n takes the branch that divides the block
Divides(pa, n, req) ==
    /\ TagOf(pa, n) = TAG_UNUSED
    /\ req <= NodeBytes(n[1])
    /\ NodeBytes(n[1]) \div 2 >= req
    /\ n[1] < DEPTH

\* The call find_mem makes after it tagged node n INNER: into the left child
LeftDescent(pa, n, req) ==
    find_mem(set_tag(pa, get_idx(n[1], n[2]), TAG_INNER), req,
             NodeBytes(n[1]) \div 2, n[1] + 1, n[2] * 2)

\* C31: between two calls of the buddy, every node below an UNUSED or a
\* USED_LEAF node is UNUSED, every INNER node has an INNER or USED_LEAF node
\* below it, the call into the left child that follows a split (of any
\* UNUSED node, for any request that splits it) returns an address, and the
\* blocks of two USED_LEAF nodes share no byte.
C31_BuddyTree ==
    page_alloc.kind = "Buddy" =>
        /\ \A n \in Nodes :
               TagOf(page_alloc, n) \in {TAG_UNUSED, TAG_USED_LEAF} =>
                   \A m \in Descendants(n) : TagOf(page_alloc, m) = TAG_UNUSED
        /\ \A n \in Nodes :
               TagOf(page_alloc, n) = TAG_INNER =>
                   \E m \in Descendants(n) :
                       TagOf(page_alloc, m) \in {TAG_INNER, TAG_USED_LEAF}
        /\ \A n \in Nodes : \A req \in BuddySizes :
               Divides(page_alloc, n, req) =>
                   /\ LeftDescent(page_alloc, n, req).panic = ""
                   /\ LeftDescent(page_alloc, n, req).ret # None
        /\ \A n \in Nodes : \A m \in Nodes \ {n} :
               (/\ TagOf(page_alloc, n) = TAG_USED_LEAF
                /\ TagOf(page_alloc, m) = TAG_USED_LEAF) =>
                   \/ BlockEnd(page_alloc, n) <= BlockBase(page_alloc, m)
                   \/ BlockEnd(page_alloc, m) <= BlockBase(page_alloc, n)

\* C31, witness: alloc of one page split the parent of the page it returned
\* (the page's buddy is UNUSED) while a block of another size is in use
C31_Witness ==
    /\ BuddyReturned
    /\ \E n \in Nodes :
           /\ n[1] = DEPTH
           /\ last.ptr = BlockBase(page_alloc, n)
           /\ TagOf(page_alloc, n) = TAG_USED_LEAF
           /\ TagOf(page_alloc, <<DEPTH, n[2] + 1 - 2 * (n[2] % 2)>>) = TAG_UNUSED
           /\ TagOf(page_alloc, <<DEPTH - 1, n[2] \div 2>>) = TAG_INNER
    /\ \E m \in Nodes : m[1] < DEPTH /\ TagOf(page_alloc, m) = TAG_USED_LEAF

\* ------------------------------------------------- the work of a buddy call
\* The calls of get_tag that find_mem(req, bytes, depth, offset) makes on b,
\* in order: the node read and the place of the read in the code
RECURSIVE find_mem_reads(_, _, _, _, _)
find_mem_reads(b, req, bytes, depth, offset) ==
    IF req > bytes \/ depth > DEPTH
    THEN <<>>
    ELSE
      LET \* None => the right half, ret => ret
          OrRight(l) ==
            IF l.panic = "" /\ l.ret = None
            THEN find_mem_reads(l.pa, req, bytes \div 2, depth + 1,
                                offset * 2 + 1)
            ELSE <<>>
          \* match self.get_tag(idx)
          Match(idx, tag) ==
            CASE tag = TAG_UNUSED ->
                   IF bytes \div 2 >= req /\ depth < DEPTH
                   THEN find_mem_reads(set_tag(b, idx, TAG_INNER), req,
                                       bytes \div 2, depth + 1, offset * 2)
                   ELSE <<>>
              [] tag = TAG_INNER ->
                   find_mem_reads(b, req, bytes \div 2, depth + 1, offset * 2)
                   \o OrRight(find_mem(b, req, bytes \div 2, depth + 1,
                                       offset * 2))
              [] OTHER -> <<>>
      IN <<[node |-> <<depth, offset>>, at |-> "match"]>>
         \o Match(get_idx(depth, offset), get_tag(b, get_idx(depth, offset)))

\* The calls of get_tag that release_mem(addr, bytes, depth, offset) makes
\* on b, in order
RECURSIVE release_mem_reads(_, _, _, _, _)
release_mem_reads(b, addr, bytes, depth, offset) ==
    LET \* combine buddy if both blocks are unused; r is the half released
        Combine(r) ==
          IF r.panic # "" THEN <<>>
          ELSE <<[node |-> <<depth + 1, offset * 2>>, at |-> "combine"]>>
               \o IF get_tag(r.pa, get_idx(depth + 1, offset * 2)) = TAG_UNUSED
                  THEN <<[node |-> <<depth + 1, offset * 2 + 1>>,
                          at |-> "combine"]>>
                  ELSE <<>>
        \* the half the address lies in
        Half(child) ==
          release_mem_reads(b, addr, bytes \div 2, depth + 1, child)
          \o Combine(release_mem(b, addr, bytes \div 2, depth + 1, child))
        \* match self.get_tag(idx)
        Match(idx, tag) ==
          IF tag = TAG_INNER
          THEN Half(IF addr < b.start + bytes * offset + (bytes \div 2)
                    THEN offset * 2 ELSE offset * 2 + 1)
          ELSE <<>>
    IN <<[node |-> <<depth, offset>>, at |-> "match"]>>
       \o Match(get_idx(depth, offset), get_tag(b, get_idx(depth, offset)))

\* The reads of buddy_alloc(size) and of buddy_free(addr)
buddy_alloc_reads(b, size) ==
    find_mem_reads(b, size, Pow2(DEPTH) * b.min_size, 0, 0)

buddy_free_reads(b, addr) ==
    release_mem_reads(b, addr, Pow2(DEPTH) * b.min_size, 0, 0)

\* The nodes whose tag the descent matched, one entry for every read
Matched(reads) ==
    [i \in {k \in 1..Len(reads) : reads[k].at = "match"} |-> reads[i].node]

\* The descent read at most one node of every level of the tree
OnePerLevel(reads) ==
    /\ Cardinality(DOMAIN Matched(reads)) <= DEPTH + 1
    /\ \A i \in DOMAIN Matched(reads) : \A j \in DOMAIN Matched(reads) :
           Matched(reads)[i][1] = Matched(reads)[j][1] => i = j

\* The reads that are not of the descent are the two children of a node of
\* the path, read after the call into one of them returned
CombineReads(reads) ==
    \A k \in 1..Len(reads) :
        reads[k].at = "combine" =>
            \E i \in DOMAIN Matched(reads) :
                /\ reads[k].node[1] = Matched(reads)[i][1] + 1
                /\ reads[k].node[2] \div 2 = Matched(reads)[i][2]

\* What a buddy free reads
FreeIsBounded ==
    [][(page_alloc.kind = "Buddy" /\ last'.op = "source_free") =>
           /\ OnePerLevel(buddy_free_reads(page_alloc, last'.ptr))
           /\ CombineReads(buddy_free_reads(page_alloc, last'.ptr))]_vars

\* C32: a buddy alloc and a buddy free each match the tag of at most one
\* node of every level of the tree, at most DEPTH + 1 nodes, and read besides
\* only the two children of the nodes of the path when they combine.
C32_BoundedByDepth ==
    /\ [][(page_alloc.kind = "Buddy" /\ last'.op = "source_alloc") =>
              /\ OnePerLevel(buddy_alloc_reads(page_alloc, last'.size))
              /\ CombineReads(buddy_alloc_reads(page_alloc, last'.size))]_vars
    /\ FreeIsBounded

\* ------------------------------------------------- the structural panics
\* The two paths of mem_alloc on a buddy-backed allocator, each on its own:
\* the caller either works the page source (alloc of a block, free of a block
\* it holds) or fills one page of a small class, of every small class, to
\* its last slot (alloc() until is_full(), free of the slots ProbeSlots once
\* fewer slots than those are left, so that every bitmap word empties and
\* fills again at the end of the page).  live is the bag of [ptr] of the
\* blocks, or of the slots, the caller holds.
SourcePhase == pages[SlabPage].size = 0

FreshPageStep ==
    /\ SourcePhase
    /\ live = EmptyBag
    /\ \E c \in SmallClasses : SlabPageAlloc(c, TRUE)

FillPageStep ==
    /\ pages[SlabPage].size \in SmallClasses
    /\ ~Slab_is_full(Start, SlabPage, pages[SlabPage].size)
    /\ SlabPageAlloc(pages[SlabPage].size, FALSE)

NearFullFreeStep ==
    /\ pages[SlabPage].size \in SmallClasses
    /\ BagCardinality(live) + Cardinality(ProbeSlots(pages[SlabPage].size))
           >= Capacity(pages[SlabPage].size)
    /\ \E a \in Live :
           /\ SlotIndex(a.ptr, pages[SlabPage].size)
                  \in ProbeSlots(pages[SlabPage].size)
           /\ SlabPageFree(pages[SlabPage].size, a.ptr)

BlockAllocStep == SourcePhase /\ BuddyAllocStep

BlockFreeStep == SourcePhase /\ SourceFreeStep

NextStructure ==
    \/ FreshPageStep
    \/ FillPageStep
    \/ NearFullFreeStep
    \/ BlockAllocStep
    \/ BlockFreeStep

SpecStructure == InitSlabPage /\ [][NextStructure]_vars

\* let idx = idx1 * size * 64 + idx2 * size, of the alloc() the page pg of
\* class c serves next
NextIdx(pg, c) ==
    LET Second(idx1) ==
          idx1 * pg.size * 64 + leading_zeros_not(pg.l2_bitmap[idx1]) * pg.size
    IN Second(leading_zeros_not(pg.l1_bitmap))

\* Every node that a buddy call reads is a node of the tree: its index is
\* below 2^(DEPTH+1) - 1
InsideTree(reads) ==
    \A k \in 1..Len(reads) :
        /\ reads[k].node \in Nodes
        /\ get_idx(reads[k].node[1], reads[k].node[2]) < Pow2(DEPTH + 1) - 1

\* C33: on a buddy-backed allocator, with every free that of a pointer the
\* caller holds, no call panics with "allocation error" or "unknown tag": the
\* offset idx that alloc() of a small page computes is below buf.len(), no
\* tag of the tree is 0b11, and every node whose tag a buddy alloc or a
\* buddy free of a held block reads (set_tag writes only the node the same
\* call of find_mem or release_mem has just read) has an index below
\* 2^(DEPTH+1) - 1.
C33_NoStructuralPanic ==
    /\ panicked \notin {"allocation error", "unknown tag"}
    /\ (/\ pages[SlabPage].size \in SmallClasses
        /\ ~Slab_is_full(Start, SlabPage, pages[SlabPage].size)) =>
           NextIdx(pages[SlabPage], pages[SlabPage].size)
               < BufLen(pages[SlabPage].size)
    /\ \A n \in Nodes :
           TagOf(page_alloc, n) \in {TAG_UNUSED, TAG_INNER, TAG_USED_LEAF}
    /\ \A size \in BuddySizes \cup {SIZE_64K} :
           InsideTree(buddy_alloc_reads(page_alloc, size))
    /\ SourcePhase =>
           \A a \in Live : InsideTree(buddy_free_reads(page_alloc, a.ptr))

\* C33, witness: alloc() handed out the last slot of a Slab32 page, at offset
\* 65216 of a buf of 65248 bytes
C33_Witness ==
    /\ panicked = ""
    /\ last.op = "slab_alloc"
    /\ last.class = 32
    /\ last.ptr = SlabPage + BufLen(32) - 32 + HeaderLen(32)
    /\ Slab_is_full(Start, SlabPage, 32)

\* ------------------------------------------------------- class isolation
\* The last call was a slab alloc or a slab free that returned
SlabCall(op) ==
    /\ last.op = op
    /\ ServedBySlab(last)
    /\ panicked = ""

\* The heads of class d and the pages that carry the size tag of d are
\* after the step what they were before it
ClassUnchanged(d) ==
    /\ slab_partial'[d] = slab_partial[d]
    /\ slab_full'[d] = slab_full[d]
    /\ \A p \in DOMAIN pages : pages[p].size = d => pages'[p] = pages[p]

\* C34: a slab alloc or free served by class c leaves the partial and full
\* heads and every page (bitmaps, prev, next, num, size) of every other class
\* as they were; the alloc leaves the page source as it was or as one
\* alloc(SIZE_64K) leaves it, the free as it was or as one free of the page
\* of the pointer leaves it.
C34_ClassIsolation ==
    /\ [][(SlabCall("alloc")' \/ SlabCall("dealloc")') =>
              \A d \in Classes \ {ClassOf(last')} : ClassUnchanged(d)]_vars
    /\ [][SlabCall("alloc")' =>
              page_alloc' \in {page_alloc,
                               MemAlloc_alloc(page_alloc, SIZE_64K).pa}]_vars
    /\ [][SlabCall("dealloc")' =>
              page_alloc' \in {page_alloc,
                               MemAlloc_free(page_alloc, PageOf(last'.raw)).pa}]_vars

====
